---- MODULE Spec2Model ----
(***************************************************************************)
(* A model of the reaction-batching middleware                             *)
(* (react/features/reactions/middleware.js) and of the lobby actions       *)
(* (react/features/lobby/actions) of jitsi-meet.                           *)
(*                                                                         *)
(* The redux store is single-threaded: a middleware case, the dispatches   *)
(* it makes and the reducer that follows `next(action)` run to completion, *)
(* so each handler is one action of the model.  The reducers and the       *)
(* helpers of functions.any are modelled as the specification describes    *)
(* them.  The specifications share the variables: Spec (the reaction       *)
(* pipeline, flushed by its timer), SpecLive (the same under a fair event  *)
(* loop, for the liveness of the flush), SpecApp (the same between the     *)
(* start and the end of the application), SpecDispatch (the same, with     *)
(* flushReactionBuffer() dispatched directly as well), SpecSendFailure     *)
(* and SpecWebhook (the timer flush with a conference whose                *)
(* sendEndpointMessage may throw, and with a webhook that may fail),       *)
(* SpecSounds and SpecNotify (the sounds and the sounds notification of    *)
(* PUSH_REACTIONS), SpecMute (the mute-reactions command),                 *)
(* SpecCommandListener (the registration of its listener), SpecLobby (the  *)
(* admission actions), SpecLobbyListener (the registration of the          *)
(* lobby-message listener), SpecKnocking (startKnocking with a lobby that  *)
(* may refuse the request), SpecLobbyChat and SpecKnockingChat (the lobby  *)
(* chat on a client of the conference and on a knocking client) and        *)
(* SpecChat (the compose targets of the chat composer).                    *)
(***************************************************************************)
EXTENDS Integers, Sequences, FiniteSets, TLC

(***************************************************************************)
(* Bounds of the model.                                                    *)
(***************************************************************************)
MaxAdds == 3
MaxTime == 1500
TickStep == 250
MaxDirectFlushes == 1
MaxLobbyCommands == 3
MaxListeners == 2

(***************************************************************************)
(* Program constants.                                                      *)
(***************************************************************************)
\* setTimeout(..., 500) of ADD_REACTION_BUFFER.
FlushDelay == 500

\* The reaction kinds (keys of REACTIONS); two of them are enough to tell
\* arrival order.
Kinds == {"like", "clap"}

\* Participant ids.  LocalId is the local participant, Undefined is the
\* `undefined` a command listener may be called with.
LocalId == "local"
RemoteIds == {"r1", "r2"}
Undefined == "undefined"
SenderIds == {LocalId} \cup RemoteIds \cup {Undefined}

\* Roles of a participant in features/base/participants; Absent stands for
\* getParticipantById returning undefined.
Absent == "absent"
Roles == {"participant", "moderator"}

\* The ids of lobby participants.
KnockIds == {"k1", "k2"}

\* The null timeoutID of the initial features/reactions state.
NoTimer == 0

VARIABLES
    now,                  \* the clock of the event loop
    timers,               \* pending setTimeout timers: records [id, due]
    nextTimerId,          \* the id the next setTimeout returns
    buffer,               \* state['features/reactions'].buffer
    timeoutID,            \* state['features/reactions'].timeoutID
    queue,                \* state['features/reactions'].queue
    roles,                \* features/base/participants: id -> role or Absent
    conference,           \* state['features/base/conference'].conference is set
    startReactionsMuted,  \* state['features/base/conference'].startReactionsMuted
    soundsReactions,      \* state['features/base/settings'].soundsReactions
    commandListeners,     \* the mute-reactions listeners added by addCommandListener
    knockingParticipants, \* state['features/lobby'].knockingParticipants
    lobbyCommands,        \* the calls made on the conference's lobby API
    lobbyListeners,       \* the listeners added by addLobbyMessageListener
    knocking,             \* state['features/lobby'].knocking
    lobbyEnabled,         \* state['features/lobby'].lobbyEnabled
    membersOnly,          \* state['features/base/conference'].membersOnly is set
    enableLobbyChat,      \* state['features/base/config'].enableLobbyChat
    privateMessageRecipient,   \* state['features/chat']: an id, or "" for undefined
    challengeResponseIsActive, \* state['features/chat'].challengeResponseIsActive
    isLobbyChatActive,         \* state['features/chat'].isLobbyChatActive
    lobbyMessageRecipient,     \* state['features/chat']: an id, or "" for undefined
    notificationDisplayed,     \* state['features/reactions'].notificationDisplayed
    disabledSounds,            \* the disabledSounds of state['features/base/config']
    customActions,             \* the customActionNameKey of the sounds notification shown
    registeredSounds,          \* the sound ids registered in features/base/sounds
    app,                       \* the life of the application: created, mounted, unmounted
    addLog,               \* history: every ADD_REACTION_BUFFER, or run of n, with its time
    flushLog,             \* history: every FLUSH_REACTION_BUFFER, with its effects
    last                  \* history: the handler that ran last, with its dispatches

vars == << now, timers, nextTimerId, buffer, timeoutID, queue, roles, conference,
           startReactionsMuted, soundsReactions, commandListeners, knockingParticipants,
           lobbyCommands, lobbyListeners, knocking, lobbyEnabled, membersOnly,
           enableLobbyChat, privateMessageRecipient, challengeResponseIsActive,
           isLobbyChatActive, lobbyMessageRecipient, notificationDisplayed,
           disabledSounds, customActions, registeredSounds, app, addLog, flushLog,
           last >>

soundVars ==
    << notificationDisplayed, disabledSounds, customActions, registeredSounds, app >>
reactionVars ==
    << timers, nextTimerId, buffer, timeoutID, queue, addLog, flushLog, soundVars >>
muteVars == << startReactionsMuted, soundsReactions, commandListeners >>
lobbyChatVars == << lobbyListeners, knocking, lobbyEnabled, membersOnly, enableLobbyChat >>
chatVars ==
    << privateMessageRecipient, challengeResponseIsActive, isLobbyChatActive,
       lobbyMessageRecipient >>
lobbyVars == << knockingParticipants, lobbyCommands, lobbyChatVars, chatVars >>

(***************************************************************************)
(* Helpers.                                                                *)
(***************************************************************************)
Range(s) == { s[i] : i \in 1..Len(s) }

RECURSIVE SumLen(_)
SumLen(batches) ==
    IF batches = << >> THEN 0 ELSE Len(Head(batches)) + SumLen(Tail(batches))

RECURSIVE Flatten(_)
Flatten(batches) ==
    IF batches = << >> THEN << >> ELSE Head(batches) \o Flatten(Tail(batches))

\* The number of i with s[i] = x.
Count(s, x) == Cardinality({ i \in 1..Len(s) : s[i] = x })

(***************************************************************************)
(* features/base/participants, as the middleware reads it.                 *)
(***************************************************************************)
getParticipantCount == Cardinality({ id \in DOMAIN roles : roles[id] # Absent })

\* `defined` is FALSE where the code gets undefined.
getParticipantById(id) ==
    IF id \in DOMAIN roles /\ roles[id] # Absent
    THEN [ defined |-> TRUE, id |-> id, local |-> (id = LocalId), role |-> roles[id] ]
    ELSE [ defined |-> FALSE, id |-> id, local |-> FALSE, role |-> Absent ]

isLocalParticipantModerator == roles[LocalId] = "moderator"

(***************************************************************************)
(* setTimeout / clearTimeout.                                              *)
(***************************************************************************)
clearTimeoutKeep(ts, id) == ts

clearTimeout(ts, id) == { t \in ts : t.id # id }

setTimeoutNoDelay(ts, id, delay) == ts \cup { [ id |-> id, due |-> now ] }

setTimeout(ts, id, delay) == ts \cup { [ id |-> id, due |-> now + delay ] }

(***************************************************************************)
(* The reducer of features/reactions and the helpers of functions.any.     *)
(***************************************************************************)
\* ADD_REACTION_BUFFER: keeps the buffer and the timeoutID of the action.
ReducerAddReactionBuffer(actionBuffer, actionTimeoutID) ==
    /\ buffer' = actionBuffer
    /\ timeoutID' = actionTimeoutID

\* FLUSH_REACTION_BUFFER: clears the buffer.
ReducerFlushReactionBuffer == buffer' = << >>

\* getReactionMessageFromBuffer: the chat summary of a buffer, the count of
\* each kind.
getReactionMessageFromBuffer(buf) == [ k \in Kinds |-> Count(buf, k) ]

\* getReactionsWithId: each reaction with a display id of its own.
getReactionsWithId(reactions, firstUid) ==
    [ i \in 1..Len(reactions) |-> [ reaction |-> reactions[i], uid |-> firstUid + i ] ]

\* SOUNDS_THRESHOLDS: the tiers of the reaction sounds.
SoundsThresholds == { 1, 5, 10, 20 }

\* The order of the keys of REACTIONS, and the soundId of each.
KindOrder == << "like", "clap" >>

REACTIONS == [ like |-> [ soundId |-> "REACTION_SOUND_LIKE" ],
               clap |-> [ soundId |-> "REACTION_SOUND_CLAP" ] ]

\* The sound id the "sounds can be disabled" notification depends on.
REACTION_SOUND == "REACTION_SOUND"

\* The highest tier a count of one or more has reached.
HighestThreshold(count) ==
    CHOOSE t \in SoundsThresholds :
        /\ t <= count
        /\ \A u \in SoundsThresholds : u <= count => u <= t

\* getReactionsSoundsThresholds: for each kind the reactions hold, in the
\* order of REACTIONS, the kind and the tier of its count.
getReactionsSoundsThresholds(reactions) ==
    LET present == SelectSeq(KindOrder, LAMBDA k : Count(reactions, k) > 0)
    IN  [ i \in 1..Len(present) |->
            [ reaction |-> present[i],
              threshold |-> HighestThreshold(Count(reactions, present[i])) ] ]

\* The id `${REACTIONS[reaction.reaction].soundId}${reaction.threshold}` of
\* line 151: the soundId and the tier it is followed by.
SoundOf(entry) ==
    [ soundId |-> REACTIONS[entry.reaction].soundId, threshold |-> entry.threshold ]

\* SHOW_SOUNDS_NOTIFICATION: the reducer notes that the notification was shown.
ReducerShowSoundsNotification == TRUE

\* The id `${REACTIONS[key].soundId}${SOUNDS_THRESHOLDS[i]}` of lines 73 and
\* 87: the soundId followed by the digits of the tier.
SoundId(soundId, threshold) == soundId \o ToString(threshold)

\* The id of the raise-hand sound, and the ids of the sounds other features
\* register.
RAISE_HAND_SOUND_ID == "RAISE_HAND_SOUND"

OtherSoundIds == { "INCOMING_MSG_SOUND" }

\* REGISTER_SOUND and UNREGISTER_SOUND: the reducer of features/base/sounds
\* keeps the sounds by their id.
ReducerRegisterSounds(ids) == registeredSounds' = registeredSounds \cup ids

ReducerUnregisterSounds(ids) == registeredSounds' = registeredSounds \ ids

\* APP_WILL_MOUNT, lines 69-81: the ids of the registerSound dispatches.
RegisteredOnMount ==
    { SoundId(REACTIONS[key].soundId, threshold) :
          key \in DOMAIN REACTIONS, threshold \in SoundsThresholds }
    \cup { RAISE_HAND_SOUND_ID }

\* APP_WILL_UNMOUNT, lines 85-92: the ids of the unregisterSound dispatches.
UnregisteredOnUnmountReactionsOnly ==
    { SoundId(REACTIONS[key].soundId, threshold) :
          key \in DOMAIN REACTIONS, threshold \in SoundsThresholds }

UnregisteredOnUnmount ==
    { SoundId(REACTIONS[key].soundId, threshold) :
          key \in DOMAIN REACTIONS, threshold \in SoundsThresholds }
    \cup { RAISE_HAND_SOUND_ID }

\* SHOW_SOUNDS_NOTIFICATION, lines 185-198: the customActionNameKey of the
\* notification, the action of a moderator pushed after the one of every user.
customActionNameKeyForAll(isModerator) ==
    << "notify.reactionSounds", "notify.reactionSoundsForAll" >>

customActionNameKey(isModerator) ==
    << "notify.reactionSounds" >>
    \o (IF isModerator THEN << "notify.reactionSoundsForAll" >> ELSE << >>)

\* The sum, over the flushes of a log, of the count the chat summary gives
\* for kind k.
RECURSIVE ChatCount(_, _)
ChatCount(log, k) ==
    IF log = << >> THEN 0
    ELSE (IF Head(log).chat = << >> THEN 0 ELSE Head(log).chat[1][k])
         + ChatCount(Tail(log), k)

\* The reactions the flushes of a log pushed to the display queue, in order.
RECURSIVE Queued(_)
Queued(log) ==
    IF log = << >> THEN << >>
    ELSE [ i \in 1..Len(Head(log).queued) |-> Head(log).queued[i].reaction ]
         \o Queued(Tail(log))

\* `last` after a step that is no command or lobby handler.
\* notified and sent are the notifications the handler showed and the lobby
\* messages it sent.
Env ==
    [ op |-> "env", id |-> "", arg |-> "", list |-> << >>, dispatched |-> << >>,
      notified |-> << >>, sent |-> << >>, threw |-> FALSE ]

Handled(op, id, arg, dispatched, threw) ==
    [ op |-> op, id |-> id, arg |-> arg, list |-> << >>, dispatched |-> dispatched,
      notified |-> << >>, sent |-> << >>, threw |-> threw ]

\* The same for a handler that is given a list.
HandledList(op, id, list, dispatched, threw) ==
    [ op |-> op, id |-> id, arg |-> "", list |-> list, dispatched |-> dispatched,
      notified |-> << >>, sent |-> << >>, threw |-> threw ]

(***************************************************************************)
(* Init: the stores' initial states; the local participant is in the       *)
(* participants' list from the start.                                      *)
(***************************************************************************)
Init ==
    /\ now = 0
    /\ timers = {}
    /\ nextTimerId = 1
    /\ buffer = << >>
    /\ timeoutID = NoTimer
    /\ queue = << >>
    /\ roles = [ id \in {LocalId} \cup RemoteIds |->
                   IF id = LocalId THEN "participant" ELSE Absent ]
    /\ conference = FALSE
    /\ startReactionsMuted = FALSE
    /\ soundsReactions = TRUE
    /\ commandListeners = 0
    /\ knockingParticipants = << >>
    /\ lobbyCommands = << >>
    /\ lobbyListeners = 0
    /\ knocking = FALSE
    /\ lobbyEnabled = FALSE
    /\ membersOnly = FALSE
    /\ enableLobbyChat = TRUE
    /\ privateMessageRecipient = ""
    /\ challengeResponseIsActive = FALSE
    /\ isLobbyChatActive = FALSE
    /\ lobbyMessageRecipient = ""
    /\ notificationDisplayed = FALSE
    /\ disabledSounds = {}
    /\ customActions = << >>
    /\ registeredSounds = {}
    /\ app = "created"
    /\ addLog = << >>
    /\ flushLog = << >>
    /\ last = Env

(***************************************************************************)
(* The environment: time, the participants' list, the conference.          *)
(***************************************************************************)
\* Time passes.  A due timer does not stop the clock: the event loop runs a
\* timer's callback at its due time or later.
Tick ==
    /\ now + TickStep <= MaxTime
    /\ now' = now + TickStep
    /\ last' = Env
    /\ UNCHANGED << reactionVars, roles, conference, muteVars, lobbyVars >>

ParticipantJoined(id, role) ==
    /\ roles[id] = Absent
    /\ roles' = [ roles EXCEPT ![id] = role ]
    /\ last' = Env
    /\ UNCHANGED << now, reactionVars, conference, muteVars, lobbyVars >>

ParticipantLeft(id) ==
    /\ id # LocalId
    /\ roles[id] # Absent
    /\ roles' = [ roles EXCEPT ![id] = Absent ]
    /\ last' = Env
    /\ UNCHANGED << now, reactionVars, conference, muteVars, lobbyVars >>

ParticipantRoleChanged(id, role) ==
    /\ roles[id] \notin { Absent, role }
    /\ roles' = [ roles EXCEPT ![id] = role ]
    /\ last' = Env
    /\ UNCHANGED << now, reactionVars, conference, muteVars, lobbyVars >>

SetConference(joined) ==
    /\ conference # joined
    /\ conference' = joined
    /\ last' = Env
    /\ UNCHANGED << now, reactionVars, roles, muteVars, lobbyVars >>

(***************************************************************************)
(* The reactions middleware.                                               *)
(***************************************************************************)
\* ADD_REACTION_BUFFER, lines 99 and 102-104: the timer of the state is
\* cleared and a new one is set.
TimersAfterAddNoClear == setTimeout(timers, nextTimerId, FlushDelay)

TimersAfterAdd == setTimeout(clearTimeout(timers, timeoutID), nextTimerId, FlushDelay)

\* ADD_REACTION_BUFFER, line 100: buffer.push(reaction).
BufferPushReplace(reaction) == << reaction >>

BufferPush(reaction) == Append(buffer, reaction)

AddReactionBuffer(reaction) ==
    /\ Len(addLog) < MaxAdds
    /\ timers' = TimersAfterAdd
    /\ nextTimerId' = nextTimerId + 1
    /\ ReducerAddReactionBuffer(BufferPush(reaction), nextTimerId)
    /\ addLog' = Append(addLog, [ reaction |-> reaction, t |-> now, n |-> 1 ])
    /\ last' = Env
    /\ UNCHANGED << now, queue, flushLog, soundVars, roles, conference, muteVars,
                    lobbyVars >>

\* FLUSH_REACTION_BUFFER, line 123: the guard of dispatch(sendReactions()).
ShouldSendReactionsAlways(participantCount) == participantCount > 0

ShouldSendReactions(participantCount) == participantCount > 1

\* SEND_REACTIONS: the endpoint messages the conference is given.
SendReactions ==
    IF conference
    THEN << [ name |-> "endpoint-reaction", reactions |-> buffer ] >>
    ELSE << >>

\* PUSH_REACTIONS, line 154: the entries the queue is extended by.
PushReactionsDropFirst(reactions) ==
    getReactionsWithId(IF reactions = << >> THEN << >> ELSE Tail(reactions), Len(queue))

PushReactions(reactions) == getReactionsWithId(reactions, Len(queue))

\* PUSH_REACTIONS, lines 143-146: the guard of
\* dispatch(displayReactionSoundsNotification()).
ShouldDisplayNotificationAlways == soundsReactions /\ REACTION_SOUND \notin disabledSounds

ShouldDisplayNotification ==
    /\ ~notificationDisplayed
    /\ soundsReactions
    /\ REACTION_SOUND \notin disabledSounds

\* PUSH_REACTIONS, lines 147-153: the sounds played, one playSound for each
\* entry of getReactionsSoundsThresholds(reactions).
PlaySoundsFirstOnly(reactions) ==
    IF soundsReactions /\ reactions # << >>
    THEN << SoundOf(getReactionsSoundsThresholds(reactions)[1]) >>
    ELSE << >>

PlaySounds(reactions) ==
    IF soundsReactions
    THEN [ i \in 1..Len(getReactionsSoundsThresholds(reactions)) |->
             SoundOf(getReactionsSoundsThresholds(reactions)[i]) ]
    ELSE << >>

\* sendReactionsWebhook(state, buffer) of functions.any, line 130: the
\* report is sent and not awaited; a report that fails is logged by the
\* function and nothing is thrown to the caller.
sendReactionsWebhook(fails) ==
    [ threw |-> FALSE, report |-> IF fails THEN "failed" ELSE "sent" ]

\* Lines 130-132 and 209: next(action) follows the call of line 130
\* whatever became of the report, unless the call threw.
NextActionReachedOnReport(webhook) == webhook.report = "sent"

NextActionReached(webhook) == ~webhook.threw

\* The FLUSH_REACTION_BUFFER case, the SEND_REACTIONS and PUSH_REACTIONS cases
\* its dispatches run, and the reducer.  sendThrows is the outcome of
\* conference.sendEndpointMessage: no case catches what it throws, so the
\* FLUSH_REACTION_BUFFER case ends at dispatch(sendReactions()).
\* webhookFails is the outcome of the webhook report; line 130 is not in a
\* try either, so the reducer of line 209 is reached when the call returns.
FlushReactionBufferWith(via, sendThrows, webhookFails) ==
    LET participantCount == getParticipantCount
        send == ShouldSendReactions(participantCount)
        threw == send /\ SendReactions # << >> /\ sendThrows
        notify == ShouldDisplayNotification
        sounds == PlaySounds(buffer)
        dispatched ==
            (IF send THEN << "SEND_REACTIONS" >> ELSE << >>)
            \o << "ADD_REACTION_MESSAGE", "PUSH_REACTIONS" >>
            \o (IF notify THEN << "SHOW_SOUNDS_NOTIFICATION" >> ELSE << >>)
            \o [ i \in 1..Len(sounds) |-> "PLAY_SOUND" ]
            \o << "SET_REACTION_QUEUE" >>
        pushed == PushReactions(buffer)
        webhook == sendReactionsWebhook(webhookFails)
    IN  IF threw
        THEN /\ UNCHANGED << queue, buffer, notificationDisplayed, customActions >>
             /\ flushLog' = Append(flushLog,
                    [ via |-> via, batch |-> buffer,
                      count |-> participantCount,
                      dispatched |-> << "SEND_REACTIONS" >>,
                      net |-> << >>, chat |-> << >>, queued |-> << >>,
                      soundsOn |-> soundsReactions, notified |-> FALSE,
                      sounds |-> << >>, webhook |-> "none", threw |-> TRUE ])
             /\ last' = Env
        ELSE /\ queue' = queue \o pushed
             /\ notificationDisplayed' =
                  IF notify THEN ReducerShowSoundsNotification ELSE notificationDisplayed
             /\ customActions' =
                  IF notify THEN customActionNameKey(isLocalParticipantModerator)
                  ELSE customActions
             /\ IF NextActionReached(webhook)
                THEN ReducerFlushReactionBuffer
                ELSE UNCHANGED buffer
             /\ flushLog' = Append(flushLog,
                    [ via |-> via, batch |-> buffer,
                      count |-> participantCount, dispatched |-> dispatched,
                      net |-> IF send THEN SendReactions ELSE << >>,
                      chat |-> << getReactionMessageFromBuffer(buffer) >>,
                      queued |-> pushed,
                      soundsOn |-> soundsReactions, notified |-> notify,
                      sounds |-> sounds, webhook |-> webhook.report,
                      threw |-> webhook.threw ])
             /\ last' = Env

\* The same with a conference whose sendEndpointMessage returns and a
\* webhook that takes the report.
FlushReactionBuffer(via) == FlushReactionBufferWith(via, FALSE, FALSE)

\* The callback of the timer of ADD_REACTION_BUFFER, lines 102-104.
TimerFiresWith(t, sendThrows, webhookFails) ==
    /\ t \in timers
    /\ t.due <= now
    /\ timers' = timers \ {t}
    /\ FlushReactionBufferWith("timer", sendThrows, webhookFails)
    /\ UNCHANGED << now, nextTimerId, timeoutID, addLog, disabledSounds,
                    registeredSounds, app, roles,
                    conference, muteVars, lobbyVars >>

TimerFires(t) == TimerFiresWith(t, FALSE, FALSE)

\* flushReactionBuffer() dispatched by another component of the application.
DispatchFlush ==
    /\ Cardinality({ i \in 1..Len(flushLog) : flushLog[i].via = "dispatch" })
         < MaxDirectFlushes
    /\ FlushReactionBuffer("dispatch")
    /\ UNCHANGED << now, timers, nextTimerId, timeoutID, addLog, disabledSounds,
                    registeredSounds, app, roles,
                    conference, muteVars, lobbyVars >>

(***************************************************************************)
(* The reaction pipeline as the application wires it: flushes are          *)
(* dispatched by the timer only.                                           *)
(***************************************************************************)
Next ==
    \/ Tick
    \/ \E id \in RemoteIds : ParticipantJoined(id, "participant")
    \/ \E id \in RemoteIds : ParticipantLeft(id)
    \/ \E joined \in BOOLEAN : SetConference(joined)
    \/ \E reaction \in Kinds : AddReactionBuffer(reaction)
    \/ \E t \in timers : TimerFires(t)

Spec == Init /\ [][Next]_vars

\* The dispatches of a case that dispatches one action for each id.
OneForEach(type, ids) == [ i \in 1..Cardinality(ids) |-> type ]

\* APP_WILL_MOUNT, lines 68-82, dispatched once when the application starts.
AppWillMount ==
    /\ app = "created"
    /\ app' = "mounted"
    /\ ReducerRegisterSounds(RegisteredOnMount)
    /\ last' = Handled("APP_WILL_MOUNT", LocalId, "",
                       OneForEach("REGISTER_SOUND", RegisteredOnMount), FALSE)
    /\ UNCHANGED << now, timers, nextTimerId, buffer, timeoutID, queue, addLog,
                    flushLog, notificationDisplayed, disabledSounds, customActions,
                    roles, conference, muteVars, lobbyVars >>

\* APP_WILL_UNMOUNT, lines 84-93, dispatched once when the application ends.
AppWillUnmount ==
    /\ app = "mounted"
    /\ app' = "unmounted"
    /\ ReducerUnregisterSounds(UnregisteredOnUnmount)
    /\ last' = Handled("APP_WILL_UNMOUNT", LocalId, "",
                       OneForEach("UNREGISTER_SOUND", UnregisteredOnUnmount), FALSE)
    /\ UNCHANGED << now, timers, nextTimerId, buffer, timeoutID, queue, addLog,
                    flushLog, notificationDisplayed, disabledSounds, customActions,
                    roles, conference, muteVars, lobbyVars >>

\* Another feature registers a sound of its own.
OtherSoundRegistered(id) ==
    /\ id \notin registeredSounds
    /\ ReducerRegisterSounds({ id })
    /\ last' = Env
    /\ UNCHANGED << now, timers, nextTimerId, buffer, timeoutID, queue, addLog,
                    flushLog, notificationDisplayed, disabledSounds, customActions,
                    app, roles, conference, muteVars, lobbyVars >>

\* The life of the application: the sounds are registered when it starts
\* and unregistered when it ends, and reactions are flushed meanwhile.
NextApp ==
    \/ AppWillMount
    \/ AppWillUnmount
    \/ \E id \in OtherSoundIds : OtherSoundRegistered(id)
    \/ Tick
    \/ \E reaction \in Kinds : AddReactionBuffer(reaction)
    \/ \E t \in timers : TimerFires(t)

SpecApp == Init /\ [][NextApp]_vars

\* The timer-flushed pipeline with a fair event loop.  The clock of the model
\* stops at MaxTime, so the addReaction calls stop early enough for the timer
\* of the last one to be due before the clock stops: a timer set later would
\* be left pending by the bound of the clock and not by the program.
AddReactionBeforeHorizon(reaction) ==
    /\ now + FlushDelay + TickStep <= MaxTime
    /\ AddReactionBuffer(reaction)

NextLive ==
    \/ Tick
    \/ \E id \in RemoteIds : ParticipantJoined(id, "participant")
    \/ SetConference(TRUE)
    \/ \E reaction \in Kinds : AddReactionBeforeHorizon(reaction)
    \/ \E t \in timers : TimerFires(t)

\* Time passes, and the event loop runs the callback of a timer that is due.
SpecLive ==
    /\ Init
    /\ [][NextLive]_vars
    /\ WF_vars(Tick)
    /\ WF_vars(\E t \in timers : TimerFires(t))

\* The same with the store open to a direct dispatch of flushReactionBuffer().
NextDispatch ==
    \/ Tick
    \/ \E id \in RemoteIds : ParticipantJoined(id, "participant")
    \/ SetConference(TRUE)
    \/ \E reaction \in Kinds : AddReactionBuffer(reaction)
    \/ \E t \in timers : TimerFires(t)
    \/ DispatchFlush

SpecDispatch == Init /\ [][NextDispatch]_vars

\* The pipeline with a conference whose sendEndpointMessage returns or throws.
NextSendFailure ==
    \/ Tick
    \/ \E id \in RemoteIds : ParticipantJoined(id, "participant")
    \/ SetConference(TRUE)
    \/ \E reaction \in Kinds : AddReactionBuffer(reaction)
    \/ \E t \in timers, sendThrows \in BOOLEAN : TimerFiresWith(t, sendThrows, FALSE)

SpecSendFailure == Init /\ [][NextSendFailure]_vars

\* The pipeline with a webhook that takes the report or fails.
NextWebhook ==
    \/ Tick
    \/ \E id \in RemoteIds : ParticipantJoined(id, "participant")
    \/ SetConference(TRUE)
    \/ \E reaction \in Kinds : AddReactionBuffer(reaction)
    \/ \E t \in timers, webhookFails \in BOOLEAN : TimerFiresWith(t, FALSE, webhookFails)

SpecWebhook == Init /\ [][NextWebhook]_vars

(***************************************************************************)
(* The mute-reactions command.                                             *)
(***************************************************************************)
\* The values attributes.startReactionsMuted arrives with; Undefined is a
\* command without the attribute.
MuteAttributes == { "true", "false", Undefined }

\* The reducers of setStartReactionsMuted and of updateSettings.
ReducerSetStartReactionsMuted(muted) == startReactionsMuted' = muted

ReducerUpdateSettings(sounds) == soundsReactions' = sounds

\* SETTINGS_UPDATED, lines 174-181: what dispatch(updateSettings(...)) is seen
\* to dispatch, the analytics event included.
SettingsUpdated(sounds) ==
    << "SETTINGS_UPDATED" >>
    \o (IF sounds = FALSE /\ soundsReactions = TRUE
        THEN << "reaction.sounds.disabled" >> ELSE << >>)

\* _onMuteReactionsCommand, line 239: reading `.local` of a participant the
\* state does not know throws.
CommandThrowsNoIdCheck(id) == ~getParticipantById(id).defined

CommandThrows(id) == id # Undefined /\ ~getParticipantById(id).defined

\* _onMuteReactionsCommand, lines 231-247: the command passes the three
\* early returns.
CommandAcceptedFromLocal(id) ==
    /\ id # Undefined
    /\ getParticipantById(id).defined
    /\ getParticipantById(id).role = "moderator"

CommandAcceptedFromAnyRole(id) ==
    /\ id # Undefined
    /\ getParticipantById(id).defined
    /\ ~getParticipantById(id).local

CommandAccepted(id) ==
    /\ id # Undefined
    /\ getParticipantById(id).defined
    /\ ~getParticipantById(id).local
    /\ getParticipantById(id).role = "moderator"

\* `last` after a command: its list tells whether the command is the one
\* handled just before, delivered again.
HandledCommand(op, id, arg, dispatched, threw) ==
    [ Handled(op, id, arg, dispatched, threw) EXCEPT
        !.list = IF last.op = op /\ last.id = id /\ last.arg = arg
                 THEN << "redelivery" >> ELSE << >> ]

\* _onMuteReactionsCommand, line 252: the test of the update.
StateDiffersAlways(oldState, newState) == TRUE

StateDiffers(oldState, newState) == oldState # newState

\* _onMuteReactionsCommand, lines 249-257: the paired update.
ApplyMuteCommandSameSounds(newState, op, id, attribute) ==
    IF startReactionsMuted # newState
    THEN /\ ReducerSetStartReactionsMuted(newState)
         /\ ReducerUpdateSettings(newState)
         /\ UNCHANGED commandListeners
         /\ last' = HandledCommand(op, id, attribute,
                << "SET_START_REACTIONS_MUTED" >> \o SettingsUpdated(newState), FALSE)
    ELSE /\ UNCHANGED muteVars
         /\ last' = HandledCommand(op, id, attribute, << >>, FALSE)

ApplyMuteCommand(newState, op, id, attribute) ==
    IF StateDiffers(startReactionsMuted, newState)
    THEN /\ ReducerSetStartReactionsMuted(newState)
         /\ ReducerUpdateSettings(~newState)
         /\ UNCHANGED commandListeners
         /\ last' = HandledCommand(op, id, attribute,
                << "SET_START_REACTIONS_MUTED" >> \o SettingsUpdated(~newState), FALSE)
    ELSE /\ UNCHANGED muteVars
         /\ last' = HandledCommand(op, id, attribute, << >>, FALSE)

\* _onMuteReactionsCommand(attributes, id, store), as the listener of
\* CONFERENCE_WILL_JOIN calls it.
OnMuteReactionsCommand(attribute, id) ==
    /\ IF CommandThrows(id)
       THEN /\ UNCHANGED muteVars
            /\ last' = HandledCommand("MUTE_REACTIONS_COMMAND", id, attribute, << >>, TRUE)
       ELSE IF CommandAccepted(id)
       THEN ApplyMuteCommand(attribute = "true", "MUTE_REACTIONS_COMMAND", id, attribute)
       ELSE /\ UNCHANGED muteVars
            /\ last' = HandledCommand("MUTE_REACTIONS_COMMAND", id, attribute, << >>, FALSE)
    /\ UNCHANGED << now, reactionVars, roles, conference, lobbyVars >>

\* SHOW_SOUNDS_NOTIFICATION, lines 188-190: the action every user is offered.
DisableReactionSounds ==
    /\ ReducerUpdateSettings(FALSE)
    /\ UNCHANGED << startReactionsMuted, commandListeners >>
    /\ last' = Handled("notify.reactionSounds", LocalId, "", SettingsUpdated(FALSE), FALSE)
    /\ UNCHANGED << now, reactionVars, roles, conference, lobbyVars >>

\* SHOW_SOUNDS_NOTIFICATION, lines 192-198: the action a moderator is offered,
\* triggered from the notification that offers it.
DisableReactionSoundsForAll ==
    /\ "notify.reactionSoundsForAll" \in Range(customActions)
    /\ ReducerSetStartReactionsMuted(TRUE)
    /\ ReducerUpdateSettings(FALSE)
    /\ UNCHANGED commandListeners
    /\ last' = Handled("notify.reactionSoundsForAll", LocalId, "",
                       << "SET_START_REACTIONS_MUTED" >> \o SettingsUpdated(FALSE), FALSE)
    /\ UNCHANGED << now, reactionVars, roles, conference, lobbyVars >>

\* SHOW_SOUNDS_NOTIFICATION, lines 183-206, as PUSH_REACTIONS dispatches it
\* (displayReactionSoundsNotification(), line 143) with the reducer after it.
ShowSoundsNotification ==
    /\ ShouldDisplayNotification
    /\ customActions' = customActionNameKey(isLocalParticipantModerator)
    /\ notificationDisplayed' = ReducerShowSoundsNotification
    /\ last' = Handled("SHOW_SOUNDS_NOTIFICATION", LocalId, "", << "SHOW_NOTIFICATION" >>,
                       FALSE)
    /\ UNCHANGED << now, timers, nextTimerId, buffer, timeoutID, queue, addLog,
                    flushLog, disabledSounds, registeredSounds, app, roles,
                    conference, muteVars, lobbyVars >>

\* The user turns the reaction sounds on again in the settings.
EnableReactionSounds ==
    /\ ~soundsReactions
    /\ ReducerUpdateSettings(TRUE)
    /\ UNCHANGED << startReactionsMuted, commandListeners >>
    /\ last' = Handled("settings", LocalId, "", SettingsUpdated(TRUE), FALSE)
    /\ UNCHANGED << now, reactionVars, roles, conference, lobbyVars >>

\* conference.addCommandListener(MUTE_REACTIONS_COMMAND, listener), lines
\* 111-114: one more listener on the conference.
addCommandListener(listeners) == listeners + 1

\* CONFERENCE_WILL_JOIN, lines 108-116, as conferenceWillJoin(conference)
\* dispatches it when the conference is created: once, before the
\* conference is joined or fails.
ConferenceWillJoin ==
    /\ commandListeners = 0
    /\ ~conference
    /\ ~membersOnly
    /\ commandListeners' = addCommandListener(commandListeners)
    /\ UNCHANGED << startReactionsMuted, soundsReactions >>
    /\ last' = Handled("CONFERENCE_WILL_JOIN", LocalId, "", << >>, FALSE)
    /\ UNCHANGED << now, reactionVars, roles, conference, lobbyVars >>

LocalOps == { "notify.reactionSounds", "notify.reactionSoundsForAll", "settings" }

NextMute ==
    \/ \E id \in RemoteIds, role \in Roles : ParticipantJoined(id, role)
    \/ \E id \in RemoteIds : ParticipantLeft(id)
    \/ \E id \in {LocalId} \cup RemoteIds, role \in Roles : ParticipantRoleChanged(id, role)
    \/ \E attribute \in MuteAttributes, id \in SenderIds :
          OnMuteReactionsCommand(attribute, id)
    \/ ShowSoundsNotification
    \/ DisableReactionSounds
    \/ DisableReactionSoundsForAll
    \/ EnableReactionSounds

SpecMute == Init /\ [][NextMute]_vars

(***************************************************************************)
(* The reaction sounds.  SpecSounds: bursts of reactions and a flush        *)
(* dispatched before the timer is due, with the sounds switched on and     *)
(* off.  SpecNotify: single reactions flushed by the timer, with the       *)
(* sounds switched on and off and the configuration loaded.                *)
(***************************************************************************)
\* The lengths of the runs of reactions of one kind.
BurstSizes == { 1, 4, 5, 10 }

\* n ADD_REACTION_BUFFER of one kind handled one after the other, with no
\* other event between them: each clears the timer of the one before.
AddReactionBurst(reaction, n) ==
    /\ Len(addLog) < MaxAdds
    /\ timers' = setTimeout(clearTimeout(timers, timeoutID), nextTimerId + n - 1,
                            FlushDelay)
    /\ nextTimerId' = nextTimerId + n
    /\ ReducerAddReactionBuffer(buffer \o [ i \in 1..n |-> reaction ],
                                nextTimerId + n - 1)
    /\ addLog' = Append(addLog, [ reaction |-> reaction, t |-> now, n |-> n ])
    /\ last' = Env
    /\ UNCHANGED << now, queue, flushLog, soundVars, roles, conference, muteVars,
                    lobbyVars >>

\* The configuration is loaded, with REACTION_SOUND among its disabledSounds
\* or without, before the first reaction.
SetDisabledSounds(disabled) ==
    /\ addLog = << >>
    /\ disabledSounds # disabled
    /\ disabledSounds' = disabled
    /\ last' = Env
    /\ UNCHANGED << now, timers, nextTimerId, buffer, timeoutID, queue, addLog,
                    flushLog, notificationDisplayed, customActions, registeredSounds,
                    app, roles, conference, muteVars, lobbyVars >>

NextSounds ==
    \/ \E reaction \in Kinds, n \in BurstSizes : AddReactionBurst(reaction, n)
    \/ DispatchFlush
    \/ DisableReactionSounds
    \/ EnableReactionSounds

SpecSounds == Init /\ [][NextSounds]_vars

NextNotify ==
    \/ Tick
    \/ \E reaction \in Kinds : AddReactionBuffer(reaction)
    \/ \E t \in timers : TimerFires(t)
    \/ SetDisabledSounds({ REACTION_SOUND })
    \/ DisableReactionSounds
    \/ EnableReactionSounds

SpecNotify == Init /\ [][NextNotify]_vars

(***************************************************************************)
(* The lobby: the knocking participants and the admission actions.         *)
(***************************************************************************)
\* The display names a knocking participant arrives or is updated with.
Names == { "Ann", "Bob" }

\* A moderator id, or "" for a participant in no lobby chat.
NoModerator == ""

KnockingIds == { knockingParticipants[i].id : i \in 1..Len(knockingParticipants) }

\* The reducer of KNOCKING_PARTICIPANT_ARRIVED_OR_UPDATED: an upsert by id
\* that merges the fields of the notification into an entry it finds.
ReducerKnockingParticipantArrivedOrUpdated(participant) ==
    IF participant.id \in KnockingIds
    THEN [ i \in 1..Len(knockingParticipants) |->
             IF knockingParticipants[i].id = participant.id
             THEN [ knockingParticipants[i] EXCEPT !.name = participant.name ]
             ELSE knockingParticipants[i] ]
    ELSE Append(knockingParticipants,
                [ id |-> participant.id, name |-> participant.name,
                  chattingWithModerator |-> NoModerator ])

\* The reducer of KNOCKING_PARTICIPANT_LEFT: the entry of the id is removed.
ReducerKnockingParticipantLeft(id) ==
    SelectSeq(knockingParticipants, LAMBDA p : p.id # id)

\* participantIsKnockingOrUpdated(participant), dispatched on the
\* conference's notification.
participantIsKnockingOrUpdated(participant) ==
    /\ knockingParticipants' = ReducerKnockingParticipantArrivedOrUpdated(participant)
    /\ last' = Handled("KNOCKING_PARTICIPANT_ARRIVED_OR_UPDATED", participant.id,
                       participant.name, << >>, FALSE)
    /\ UNCHANGED << now, reactionVars, roles, conference, muteVars, lobbyCommands,
                    lobbyChatVars, chatVars >>

\* knockingParticipantLeft(id), dispatched on the conference's "left"
\* notification; arg tells whether the id was knocking.
knockingParticipantLeft(id) ==
    /\ knockingParticipants' = ReducerKnockingParticipantLeft(id)
    /\ last' = Handled("KNOCKING_PARTICIPANT_LEFT", id,
                       IF id \in KnockingIds THEN "knocking" ELSE "unknown",
                       << >>, FALSE)
    /\ UNCHANGED << now, reactionVars, roles, conference, muteVars, lobbyCommands,
                    lobbyChatVars, chatVars >>

\* getCurrentConference(getState) is defined: the conference, or the
\* members-only conference the local participant knocks at.
getCurrentConference == conference \/ membersOnly

lobbyApproveAccess(id) == [ cmd |-> "lobbyApproveAccess", id |-> id ]

lobbyDenyAccess(id) == [ cmd |-> "lobbyDenyAccess", id |-> id ]

\* setKnockingParticipantApproval(id, approved), lines 367-379.
setKnockingParticipantApproval(id, approved) ==
    /\ Len(lobbyCommands) < MaxLobbyCommands
    /\ lobbyCommands' =
         IF getCurrentConference
         THEN IF approved
              THEN Append(lobbyCommands, lobbyApproveAccess(id))
              ELSE Append(lobbyCommands, lobbyDenyAccess(id))
         ELSE lobbyCommands
    /\ last' = Handled("setKnockingParticipantApproval", id,
                       IF approved THEN "approved" ELSE "rejected", << >>, FALSE)
    /\ UNCHANGED << now, reactionVars, roles, conference, muteVars,
                    knockingParticipants, lobbyChatVars, chatVars >>

\* approveKnockingParticipant(id), lines 403-409.
approveKnockingParticipantOptimistic(id) ==
    /\ Len(lobbyCommands) < MaxLobbyCommands
    /\ lobbyCommands' =
         IF getCurrentConference
         THEN Append(lobbyCommands, lobbyApproveAccess(id))
         ELSE lobbyCommands
    /\ knockingParticipants' = ReducerKnockingParticipantLeft(id)
    /\ last' = Handled("approveKnockingParticipant", id, "", << >>, FALSE)
    /\ UNCHANGED << now, reactionVars, roles, conference, muteVars, lobbyChatVars,
                    chatVars >>

approveKnockingParticipantOnce(id) ==
    /\ Len(lobbyCommands) < MaxLobbyCommands
    /\ lobbyCommands' =
         IF getCurrentConference /\ lobbyApproveAccess(id) \notin Range(lobbyCommands)
         THEN Append(lobbyCommands, lobbyApproveAccess(id))
         ELSE lobbyCommands
    /\ last' = Handled("approveKnockingParticipant", id, "", << >>, FALSE)
    /\ UNCHANGED << now, reactionVars, roles, conference, muteVars,
                    knockingParticipants, lobbyChatVars, chatVars >>

approveKnockingParticipant(id) ==
    /\ Len(lobbyCommands) < MaxLobbyCommands
    /\ lobbyCommands' =
         IF getCurrentConference
         THEN Append(lobbyCommands, lobbyApproveAccess(id))
         ELSE lobbyCommands
    /\ last' = Handled("approveKnockingParticipant", id, "", << >>, FALSE)
    /\ UNCHANGED << now, reactionVars, roles, conference, muteVars,
                    knockingParticipants, lobbyChatVars, chatVars >>

\* rejectKnockingParticipant(id), lines 417-423.
rejectKnockingParticipant(id) ==
    /\ Len(lobbyCommands) < MaxLobbyCommands
    /\ lobbyCommands' =
         IF getCurrentConference
         THEN Append(lobbyCommands, lobbyDenyAccess(id))
         ELSE lobbyCommands
    /\ last' = Handled("rejectKnockingParticipant", id, "", << >>, FALSE)
    /\ UNCHANGED << now, reactionVars, roles, conference, muteVars,
                    knockingParticipants, lobbyChatVars, chatVars >>

\* The lists admitMultiple is called with: participants without repetition,
\* each given by its id.
AdmitLists ==
    { << >> } \cup { << a >> : a \in KnockIds }
    \cup { l \in { << a, b >> : a \in KnockIds, b \in KnockIds } : l[1] # l[2] }

\* The outcome of the approvals at the server: the id it refuses, or "" when
\* it refuses none.  The refusal arrives after the call has returned.
Rejections == KnockIds \cup { "" }

\* admitMultiple, lines 390-392: the calls of the forEach.
RECURSIVE lobbyApproveEachUntilRejected(_, _)
lobbyApproveEachUntilRejected(participants, rejected) ==
    IF participants = << >> THEN << >>
    ELSE IF Head(participants) = rejected
         THEN << lobbyApproveAccess(Head(participants)) >>
         ELSE << lobbyApproveAccess(Head(participants)) >>
              \o lobbyApproveEachUntilRejected(Tail(participants), rejected)

lobbyApproveEach(participants, rejected) ==
    [ i \in 1..Len(participants) |-> lobbyApproveAccess(participants[i]) ]

\* admitMultiple(participants), lines 387-395.  The conference is not tested:
\* without one, the first call of the forEach throws a TypeError.
admitMultiple(participants, rejected) ==
    /\ Len(lobbyCommands) + Len(participants) <= MaxLobbyCommands
    /\ lobbyCommands' =
         IF getCurrentConference
         THEN lobbyCommands \o lobbyApproveEach(participants, rejected)
         ELSE lobbyCommands
    /\ last' = HandledList("admitMultiple", rejected, participants, << >>,
                           ~getCurrentConference /\ participants # << >>)
    /\ UNCHANGED << now, reactionVars, roles, conference, muteVars,
                    knockingParticipants, lobbyChatVars, chatVars >>

NextLobby ==
    \/ Tick
    \/ \E joined \in BOOLEAN : SetConference(joined)
    \/ \E id \in KnockIds, name \in Names :
          participantIsKnockingOrUpdated([ id |-> id, name |-> name ])
    \/ \E id \in KnockIds : knockingParticipantLeft(id)
    \/ \E id \in KnockIds, approved \in BOOLEAN :
          setKnockingParticipantApproval(id, approved)
    \/ \E id \in KnockIds : approveKnockingParticipant(id)
    \/ \E id \in KnockIds : rejectKnockingParticipant(id)
    \/ \E participants \in AdmitLists, rejected \in Rejections :
          admitMultiple(participants, rejected)

SpecLobby == Init /\ [][NextLobby]_vars

(***************************************************************************)
(* The lobby chat: the registration of the lobby-message listener and the  *)
(* messages the listener is called with.                                   *)
(***************************************************************************)
\* The types of the lobby messages; OtherMessage is a type the listener has
\* no branch for.
LOBBY_CHAT_MESSAGE == "LOBBY_CHAT_MESSAGE"
LOBBY_CHAT_INITIALIZED == "LOBBY_CHAT_INITIALIZED"
MODERATOR_IN_CHAT_WITH_LEFT == "MODERATOR_IN_CHAT_WITH_LEFT"
OtherMessage == "OTHER"

\* The ids a LOBBY_CHAT_INITIALIZED names as the moderator and the attendee.
ModeratorIds == { LocalId } \cup RemoteIds
AttendeeIds == KnockIds \cup { LocalId }

\* The name the payload of a message gives for an id.
DisplayName(id) ==
    CASE id = "local" -> "Lea"
      [] id = "r1" -> "Max"
      [] id = "r2" -> "Mia"
      [] id = "k1" -> "Ann"
      [] OTHER -> "Bob"

\* The messages the listener is called with.  `from` is the participantId
\* the listener is given; only the LOBBY_CHAT_MESSAGE branch reads it.
LobbyMessages ==
    { [ type |-> LOBBY_CHAT_INITIALIZED, moderator |-> m, attendee |-> a, from |-> "" ] :
        m \in ModeratorIds, a \in AttendeeIds }
    \cup { [ type |-> MODERATOR_IN_CHAT_WITH_LEFT, moderator |-> m, attendee |-> "",
             from |-> "" ] : m \in ModeratorIds }
    \cup { [ type |-> LOBBY_CHAT_MESSAGE, moderator |-> "", attendee |-> "", from |-> "r1" ],
           [ type |-> OtherMessage, moderator |-> "", attendee |-> "", from |-> "r1" ] }

\* conference.myLobbyUserId() and conference.getRole().
myLobbyUserId == LocalId

getRole == roles[LocalId]

\* What the handlers of a message read and change: the state they find, and
\* the dispatches, notifications and lobby messages they add.
LobbyChatState ==
    [ knockingParticipants |-> knockingParticipants,
      lobbyMessageRecipient |-> lobbyMessageRecipient,
      isLobbyChatActive |-> isLobbyChatActive,
      dispatched |-> << >>, notified |-> << >>, sent |-> << >>, threw |-> FALSE ]

\* The reducer of SET_LOBBY_PARTICIPANT_CHAT_STATE: the entry of the attendee
\* names the moderator.
ReducerSetLobbyParticipantChatState(kp, participant, moderator) ==
    [ i \in 1..Len(kp) |->
        IF kp[i].id = participant
        THEN [ kp[i] EXCEPT !.chattingWithModerator = moderator ]
        ELSE kp[i] ]

\* The reducer of REMOVE_LOBBY_CHAT_WITH_MODERATOR: no entry names the
\* moderator any more.
ReducerRemoveLobbyChatWithModerator(kp, moderatorId) ==
    [ i \in 1..Len(kp) |->
        IF kp[i].chattingWithModerator = moderatorId
        THEN [ kp[i] EXCEPT !.chattingWithModerator = NoModerator ]
        ELSE kp[i] ]

\* onLobbyChatInitialized(payload) of the chat feature: the local party of
\* the chat gets the other party as its lobby-chat recipient.
onLobbyChatInitialized(st, payload) ==
    LET other == IF payload.moderator = myLobbyUserId THEN payload.attendee
                 ELSE IF payload.attendee = myLobbyUserId THEN payload.moderator
                 ELSE ""
    IN  IF other = "" THEN st
        ELSE [ st EXCEPT !.lobbyMessageRecipient = other,
                         !.isLobbyChatActive = TRUE,
                         !.dispatched = Append(@, "SET_LOBBY_CHAT_RECIPIENT") ]

\* removeLobbyChatParticipant(true) of the chat feature: the lobby chat is
\* ended, its recipient and its messages are removed.
removeLobbyChatParticipant(st) ==
    [ st EXCEPT !.lobbyMessageRecipient = "",
                !.isLobbyChatActive = FALSE,
                !.dispatched = Append(@, "REMOVE_LOBBY_CHAT_PARTICIPANT") ]

\* handleLobbyMessageReceived(message, participantId) of the chat feature.
handleLobbyMessageReceived(st, participantId) ==
    [ st EXCEPT !.dispatched = Append(@, "ADD_MESSAGE") ]

\* handleLobbyChatInitialized, line 564: the guard of the notification.  The
\* knocking participants are those of the state read at line 549.
ShouldNotifyChatStarted(payload) ==
    /\ \E i \in 1..Len(knockingParticipants) :
          knockingParticipants[i].id = payload.attendee
    /\ getRole = "moderator"
    /\ payload.moderator # myLobbyUserId

\* handleLobbyChatInitialized(payload), lines 547-574.  Without a current
\* conference line 552 throws.
handleLobbyChatInitializedKeepFirst(st, payload) ==
    IF ~getCurrentConference
    THEN [ st EXCEPT !.threw = TRUE ]
    ELSE LET chatting ==
                 \E i \in 1..Len(st.knockingParticipants) :
                     /\ st.knockingParticipants[i].id = payload.attendee
                     /\ st.knockingParticipants[i].chattingWithModerator # NoModerator
             st1 == [ st EXCEPT
                        !.knockingParticipants =
                            IF chatting THEN @
                            ELSE ReducerSetLobbyParticipantChatState(@, payload.attendee,
                                                                     payload.moderator),
                        !.dispatched = Append(@, "SET_LOBBY_PARTICIPANT_CHAT_STATE") ]
         IN  onLobbyChatInitialized(st1, payload)

handleLobbyChatInitialized(st, payload) ==
    IF ~getCurrentConference
    THEN [ st EXCEPT !.threw = TRUE ]
    ELSE LET st1 == [ st EXCEPT
                        !.knockingParticipants =
                            ReducerSetLobbyParticipantChatState(@, payload.attendee,
                                                                payload.moderator),
                        !.dispatched = Append(@, "SET_LOBBY_PARTICIPANT_CHAT_STATE") ]
             st2 == onLobbyChatInitialized(st1, payload)
         IN  IF ShouldNotifyChatStarted(payload)
             THEN [ st2 EXCEPT
                      !.dispatched = Append(@, "SHOW_NOTIFICATION"),
                      !.notified = Append(@,
                          [ titleKey |-> "lobby.lobbyChatStartedNotification",
                            moderator |-> DisplayName(payload.moderator),
                            attendee |-> DisplayName(payload.attendee) ]) ]
             ELSE st2

\* updateLobbyParticipantOnModeratorLeave, line 633: the local participant
\* knocks and chats with the moderator who left.
ChatsWithDepartedAlways(st, participantId) == knocking

ChatsWithDeparted(st, participantId) ==
    /\ knocking
    /\ st.lobbyMessageRecipient # ""
    /\ st.lobbyMessageRecipient = participantId

\* updateLobbyParticipantOnModeratorLeave, line 637: the branch of a client
\* that does not knock, a moderator's client.
ModeratorClientAlways(st) == TRUE

ModeratorClient(st) == ~knocking

\* Lines 639-645: the participant to notify is the first knocking
\* participant that chats with the moderator who left, and it is sent
\* MODERATOR_IN_CHAT_WITH_LEFT.
ParticipantsToNotify(st, participantId) ==
    LET found == { i \in 1..Len(st.knockingParticipants) :
                     st.knockingParticipants[i].chattingWithModerator = participantId }
    IN  IF found = {} THEN {} ELSE { CHOOSE i \in found : \A j \in found : i <= j }

\* Lines 647-650: dispatch of REMOVE_LOBBY_CHAT_WITH_MODERATOR with the id of
\* the moderator who left.
RemoveLobbyChatWithModeratorOfNotified(st, participantId) ==
    [ st EXCEPT
        !.knockingParticipants =
            [ i \in 1..Len(@) |->
                IF i \in ParticipantsToNotify(st, participantId)
                THEN [ @[i] EXCEPT !.chattingWithModerator = NoModerator ]
                ELSE @[i] ],
        !.dispatched = Append(@, "REMOVE_LOBBY_CHAT_WITH_MODERATOR") ]

RemoveLobbyChatWithModerator(st, participantId) ==
    [ st EXCEPT
        !.knockingParticipants = ReducerRemoveLobbyChatWithModerator(@, participantId),
        !.dispatched = Append(@, "REMOVE_LOBBY_CHAT_WITH_MODERATOR") ]

\* updateLobbyParticipantOnModeratorLeave(participantId), lines 626-653.
\* Line 642 throws when a participant is to be notified and the state has no
\* conference.
updateLobbyParticipantOnModeratorLeave(st, participantId) ==
    IF ChatsWithDeparted(st, participantId)
    THEN removeLobbyChatParticipant(st)
    ELSE IF ModeratorClient(st)
    THEN LET toNotify == ParticipantsToNotify(st, participantId)
         IN  IF toNotify # {} /\ ~conference
             THEN [ st EXCEPT !.threw = TRUE ]
             ELSE RemoveLobbyChatWithModerator(
                    [ st EXCEPT
                        !.sent =
                            IF toNotify # {}
                            THEN LET i == CHOOSE i \in toNotify : TRUE
                                 IN  Append(@,
                                       [ type |-> MODERATOR_IN_CHAT_WITH_LEFT,
                                         moderatorId |->
                                           st.knockingParticipants[i].chattingWithModerator,
                                         to |-> st.knockingParticipants[i].id ])
                            ELSE @ ],
                    participantId)
    ELSE st

\* The listener of setLobbyMessageListener, lines 670-680.
OnLobbyMessageDefaultChat(st, message) ==
    IF message.type = LOBBY_CHAT_INITIALIZED
    THEN handleLobbyChatInitialized(st, message)
    ELSE IF message.type = MODERATOR_IN_CHAT_WITH_LEFT
    THEN updateLobbyParticipantOnModeratorLeave(st, message.moderator)
    ELSE handleLobbyMessageReceived(st, message.from)

OnLobbyMessage(st, message) ==
    IF message.type = LOBBY_CHAT_MESSAGE
    THEN handleLobbyMessageReceived(st, message.from)
    ELSE IF message.type = LOBBY_CHAT_INITIALIZED
    THEN handleLobbyChatInitialized(st, message)
    ELSE IF message.type = MODERATOR_IN_CHAT_WITH_LEFT
    THEN updateLobbyParticipantOnModeratorLeave(st, message.moderator)
    ELSE st

\* The conference calls each of its n listeners with the message, one after
\* the other.
RECURSIVE CallListeners(_, _, _)
CallListeners(n, st, message) ==
    IF n = 0 THEN st ELSE CallListeners(n - 1, OnLobbyMessage(st, message), message)

\* The moderators the knocking participants name for an id.
ChattingWith(id) ==
    LET entries == SelectSeq(knockingParticipants,
                             LAMBDA p : p.id = id /\ p.chattingWithModerator # NoModerator)
    IN  [ i \in 1..Len(entries) |-> entries[i].chattingWithModerator ]

\* The knocking participants that name moderator id.
ChattedWith(id) ==
    LET entries == SelectSeq(knockingParticipants,
                             LAMBDA p : p.chattingWithModerator = id)
    IN  [ i \in 1..Len(entries) |-> entries[i].id ]

\* A lobby message arrives.  The list of `last` is, for a
\* LOBBY_CHAT_INITIALIZED, the moderators the attendee was chatting with
\* when the message arrived, and for a MODERATOR_IN_CHAT_WITH_LEFT the
\* knocking participants that were chatting with the moderator.
LobbyMessageReceived(message) ==
    LET st == CallListeners(lobbyListeners, LobbyChatState, message)
    IN  /\ knockingParticipants' = st.knockingParticipants
        /\ lobbyMessageRecipient' = st.lobbyMessageRecipient
        /\ isLobbyChatActive' = st.isLobbyChatActive
        /\ last' = [ op |-> message.type, id |-> message.moderator,
                     arg |-> message.attendee,
                     list |-> IF message.type = LOBBY_CHAT_INITIALIZED
                              THEN ChattingWith(message.attendee)
                              ELSE IF message.type = MODERATOR_IN_CHAT_WITH_LEFT
                              THEN ChattedWith(message.moderator)
                              ELSE << >>,
                     dispatched |-> st.dispatched, notified |-> st.notified,
                     sent |-> st.sent, threw |-> st.threw ]
        /\ UNCHANGED << now, reactionVars, roles, conference, muteVars, lobbyCommands,
                        lobbyChatVars, privateMessageRecipient,
                        challengeResponseIsActive >>

\* conference.addLobbyMessageListener(listener), line 670: one more listener.
addLobbyMessageListener(listeners) == listeners + 1

\* setLobbyMessageListener(), lines 660-682.  Line 670 throws without a
\* current conference.
setLobbyMessageListener ==
    /\ lobbyListeners < MaxListeners
    /\ lobbyListeners' =
         IF enableLobbyChat /\ getCurrentConference
         THEN addLobbyMessageListener(lobbyListeners)
         ELSE lobbyListeners
    /\ last' = Handled("setLobbyMessageListener", LocalId, "", << >>,
                       enableLobbyChat /\ ~getCurrentConference)
    /\ UNCHANGED << now, reactionVars, roles, conference, muteVars,
                    knockingParticipants, lobbyCommands, knocking, lobbyEnabled,
                    membersOnly, enableLobbyChat, chatVars >>

\* maybeSetLobbyChatMessageListener(), lines 609-618.
maybeSetLobbyChatMessageListener ==
    /\ lobbyListeners < MaxListeners
    /\ lobbyListeners' =
         IF lobbyEnabled /\ enableLobbyChat /\ getCurrentConference
         THEN addLobbyMessageListener(lobbyListeners)
         ELSE lobbyListeners
    /\ last' = Handled("maybeSetLobbyChatMessageListener", LocalId, "",
                       IF lobbyEnabled THEN << "setLobbyMessageListener" >> ELSE << >>,
                       lobbyEnabled /\ enableLobbyChat /\ ~getCurrentConference)
    /\ UNCHANGED << now, reactionVars, roles, conference, muteVars,
                    knockingParticipants, lobbyCommands, knocking, lobbyEnabled,
                    membersOnly, enableLobbyChat, chatVars >>

\* startKnocking(), lines 484-492: the calls of the thunk, in the order of
\* its statements.
startKnockingStepsKnockFirst ==
    << "CONFERENCE_WILL_JOIN", "sendLocalParticipant", "SET_KNOCKING_STATE",
       "joinLobby", "setLobbyMessageListener" >>

startKnockingSteps ==
    << "CONFERENCE_WILL_JOIN", "sendLocalParticipant", "joinLobby",
       "setLobbyMessageListener", "SET_KNOCKING_STATE" >>

\* The statements that run when the call `failing` throws: those up to it.
StepsUntil(steps, failing) ==
    IF \E i \in 1..Len(steps) : steps[i] = failing
    THEN SubSeq(steps, 1, CHOOSE i \in 1..Len(steps) : steps[i] = failing)
    ELSE steps

\* startKnocking(), lines 478-494.  Without a members-only conference the
\* thunk ends at its first use of membersOnly.  conferenceWillJoin(membersOnly)
\* runs the CONFERENCE_WILL_JOIN case of the reactions middleware.  joinThrows is the outcome of
\* membersOnly.joinLobby(name, email): the thunk has no try, so the
\* statements after a call that throws do not run.
startKnockingWith(joinThrows) ==
    /\ lobbyListeners < MaxListeners
    /\ commandListeners < MaxListeners
    /\ UNCHANGED << startReactionsMuted, soundsReactions >>
    /\ IF membersOnly
       THEN LET ran == StepsUntil(startKnockingSteps,
                                  IF joinThrows THEN "joinLobby" ELSE "")
            IN  /\ commandListeners' =
                     IF "CONFERENCE_WILL_JOIN" \in Range(ran)
                     THEN addCommandListener(commandListeners)
                     ELSE commandListeners
                /\ lobbyListeners' =
                     IF enableLobbyChat /\ "setLobbyMessageListener" \in Range(ran)
                     THEN addLobbyMessageListener(lobbyListeners)
                     ELSE lobbyListeners
                /\ knocking' = IF "SET_KNOCKING_STATE" \in Range(ran)
                               THEN TRUE ELSE knocking
                /\ last' = Handled("startKnocking", LocalId, "", ran, joinThrows)
       ELSE /\ UNCHANGED << lobbyListeners, knocking, commandListeners >>
            /\ last' = Handled("startKnocking", LocalId, "", << >>, TRUE)
    /\ UNCHANGED << now, reactionVars, roles, conference,
                    knockingParticipants, lobbyCommands, lobbyEnabled, membersOnly,
                    enableLobbyChat, chatVars >>

\* The same with a lobby that takes the request.
startKnocking == startKnockingWith(FALSE)

\* setKnockingState(false), lines 434-439, dispatched when the local
\* participant is let in.
setKnockingState(state) ==
    /\ knocking # state
    /\ knocking' = state
    /\ last' = Env
    /\ UNCHANGED << now, reactionVars, roles, conference, muteVars,
                    knockingParticipants, lobbyCommands, lobbyListeners, lobbyEnabled,
                    membersOnly, enableLobbyChat, chatVars >>

\* setLobbyModeEnabled(enabled), lines 450-455.
setLobbyModeEnabled(enabled) ==
    /\ lobbyEnabled # enabled
    /\ lobbyEnabled' = enabled
    /\ last' = Env
    /\ UNCHANGED << now, reactionVars, roles, conference, muteVars,
                    knockingParticipants, lobbyCommands, lobbyListeners, knocking,
                    membersOnly, enableLobbyChat, chatVars >>

\* The conference fails as a members-only conference: the lobby screen opens.
SetMembersOnly ==
    /\ ~membersOnly
    /\ membersOnly' = TRUE
    /\ last' = Env
    /\ UNCHANGED << now, reactionVars, roles, conference, muteVars,
                    knockingParticipants, lobbyCommands, lobbyListeners, knocking,
                    lobbyEnabled, enableLobbyChat, chatVars >>

\* The configuration is loaded with enableLobbyChat: false, before a
\* listener is set.
SetEnableLobbyChat(enabled) ==
    /\ lobbyListeners = 0
    /\ enableLobbyChat # enabled
    /\ enableLobbyChat' = enabled
    /\ last' = Env
    /\ UNCHANGED << now, reactionVars, roles, conference, muteVars,
                    knockingParticipants, lobbyCommands, lobbyListeners, knocking,
                    lobbyEnabled, membersOnly, chatVars >>

\* Knocking with a lobby that takes the join request or throws; the local
\* participant stops knocking when it is let in, and its listeners are
\* called with the messages of the lobby chat.
NextKnocking ==
    \/ \E joined \in BOOLEAN : SetConference(joined)
    \/ SetMembersOnly
    \/ \E enabled \in BOOLEAN : SetEnableLobbyChat(enabled)
    \/ \E enabled \in BOOLEAN : setLobbyModeEnabled(enabled)
    \/ \E joinThrows \in BOOLEAN : startKnockingWith(joinThrows)
    \/ setKnockingState(FALSE)
    \/ \E message \in { m \in LobbyMessages : m.type = LOBBY_CHAT_MESSAGE } :
          LobbyMessageReceived(message)

SpecKnocking == Init /\ [][NextKnocking]_vars

\* The conference from its creation: it is created, fails as members-only,
\* the local participant knocks, is let in and the conference is joined;
\* each listener of the joined conference is called with the commands of
\* the moderators.
NextCommandListener ==
    \/ ConferenceWillJoin
    \/ \E joined \in BOOLEAN : SetConference(joined)
    \/ SetMembersOnly
    \/ \E enabled \in BOOLEAN : SetEnableLobbyChat(enabled)
    \/ startKnocking
    \/ setKnockingState(FALSE)
    \/ \E id \in RemoteIds : conference /\ ParticipantJoined(id, "moderator")
    \/ \E attribute \in { "true", "false" }, id \in RemoteIds :
          /\ conference
          /\ commandListeners >= 1
          /\ OnMuteReactionsCommand(attribute, id)

SpecCommandListener == Init /\ [][NextCommandListener]_vars

\* The registration of the listener: the three actions that register it,
\* with the state they read, and the messages forwarded to the chat.
NextLobbyListener ==
    \/ \E joined \in BOOLEAN : SetConference(joined)
    \/ SetMembersOnly
    \/ \E enabled \in BOOLEAN : SetEnableLobbyChat(enabled)
    \/ \E enabled \in BOOLEAN : setLobbyModeEnabled(enabled)
    \/ startKnocking
    \/ \E state \in BOOLEAN : setKnockingState(state)
    \/ setLobbyMessageListener
    \/ maybeSetLobbyChatMessageListener
    \/ \E message \in { m \in LobbyMessages : m.type = LOBBY_CHAT_MESSAGE } :
          LobbyMessageReceived(message)

SpecLobbyListener == Init /\ [][NextLobbyListener]_vars

\* The lobby chat on a client that has joined the conference, and the
\* messages its listeners are called with.  The joined conference is what
\* tells the client of its role and of the knocking participants.
NextLobbyChat ==
    \/ SetConference(TRUE)
    \/ \E role \in Roles : conference /\ ParticipantRoleChanged(LocalId, role)
    \/ \E id \in KnockIds :
          /\ conference
          /\ participantIsKnockingOrUpdated([ id |-> id, name |-> DisplayName(id) ])
    \/ \E id \in KnockIds : conference /\ knockingParticipantLeft(id)
    \/ setLobbyMessageListener
    \/ \E message \in LobbyMessages : LobbyMessageReceived(message)

SpecLobbyChat == Init /\ [][NextLobbyChat]_vars

\* The lobby chat on the client of a knocking participant: the messages
\* that name it or a moderator, until it is let in.
NextKnockingChat ==
    \/ SetMembersOnly
    \/ startKnocking
    \/ setKnockingState(FALSE)
    \/ setLobbyMessageListener
    \/ \E message \in { m \in LobbyMessages : m.attendee \in { LocalId, "" } } :
          LobbyMessageReceived(message)

SpecKnockingChat == Init /\ [][NextKnockingChat]_vars

(***************************************************************************)
(* The compose targets of the chat composer: the private-message           *)
(* recipient, the challenge-response recipient and the lobby-chat          *)
(* recipient of state['features/chat'].                                    *)
(***************************************************************************)
\* The reducers of SET_PRIVATE_MESSAGE_RECIPIENT,
\* SET_CHALLENGE_RESPONSE_ACTIVE_STATE and SET_LOBBY_CHAT_ACTIVE_STATE: each
\* target is a field of its own, and an action writes the field it names.
ReducerSetPrivateMessageRecipient(participant) ==
    /\ privateMessageRecipient' = participant
    /\ UNCHANGED << challengeResponseIsActive, isLobbyChatActive, lobbyMessageRecipient >>

ReducerSetChallengeResponseActiveState(active) ==
    /\ challengeResponseIsActive' = active
    /\ UNCHANGED << privateMessageRecipient, isLobbyChatActive, lobbyMessageRecipient >>

ReducerSetLobbyChatActiveState(active) ==
    /\ isLobbyChatActive' = active
    /\ UNCHANGED << privateMessageRecipient, challengeResponseIsActive,
                    lobbyMessageRecipient >>

\* What no action of the composer changes.
composerUnchanged ==
    UNCHANGED << now, reactionVars, roles, conference, muteVars, knockingParticipants,
                 lobbyCommands, lobbyChatVars >>

\* _onResetPrivateMessageRecipient of the native components (lines 72-79)
\* and _onRemovePrivateMessageRecipient of the web component:
\* dispatch(setPrivateMessageRecipient()), no participant.
onResetPrivateMessageRecipient ==
    /\ ReducerSetPrivateMessageRecipient("")
    /\ last' = Handled("onResetPrivateMessageRecipient", "", "",
                       << "SET_PRIVATE_MESSAGE_RECIPIENT" >>, FALSE)
    /\ composerUnchanged

\* _onResetLobbyChatMessageRecipient, lines 89-93:
\* dispatch(setLobbyChatActiveState(false)).
onResetLobbyChatMessageRecipient ==
    /\ ReducerSetLobbyChatActiveState(FALSE)
    /\ last' = Handled("onResetLobbyChatMessageRecipient", "", "",
                       << "SET_LOBBY_CHAT_ACTIVE_STATE" >>, FALSE)
    /\ composerUnchanged

\* _onResetChallengeResponseMessageRecipient of the native component and
\* _onHideChallengeResponseRecipient of the web component:
\* dispatch(setChallengeResponseActiveState(false)).
onResetChallengeResponseMessageRecipient ==
    /\ ReducerSetChallengeResponseActiveState(FALSE)
    /\ last' = Handled("onResetChallengeResponseMessageRecipient", "", "",
                       << "SET_CHALLENGE_RESPONSE_ACTIVE_STATE" >>, FALSE)
    /\ composerUnchanged

\* The user picks a participant of the conference to write to in private:
\* setPrivateMessageRecipient(participant).
SelectPrivateMessageRecipient(participant) ==
    /\ ReducerSetPrivateMessageRecipient(participant)
    /\ last' = Handled("setPrivateMessageRecipient", participant, "",
                       << "SET_PRIVATE_MESSAGE_RECIPIENT" >>, FALSE)
    /\ composerUnchanged

\* A challenge-response exchange starts:
\* setChallengeResponseActiveState(true).
StartChallengeResponse ==
    /\ ReducerSetChallengeResponseActiveState(TRUE)
    /\ last' = Handled("setChallengeResponseActiveState", "", "",
                       << "SET_CHALLENGE_RESPONSE_ACTIVE_STATE" >>, FALSE)
    /\ composerUnchanged

\* The targets that are active: the composer shows the challenge-response
\* or lobby-chat recipient when its flag is set, and the private recipient
\* when there is one.
ComposeTargets ==
    { target \in { "private", "challengeResponse", "lobbyChat" } :
        \/ target = "private" /\ privateMessageRecipient # ""
        \/ target = "challengeResponse" /\ challengeResponseIsActive
        \/ target = "lobbyChat" /\ isLobbyChatActive }

\* The composer of a client in the conference: a lobby chat is started by
\* the LOBBY_CHAT_INITIALIZED message that names the client.
NextChat ==
    \/ SetConference(TRUE)
    \/ setLobbyMessageListener
    \/ \E message \in { m \in LobbyMessages : m.type = LOBBY_CHAT_INITIALIZED } :
          LobbyMessageReceived(message)
    \/ \E participant \in RemoteIds : SelectPrivateMessageRecipient(participant)
    \/ StartChallengeResponse
    \/ onResetPrivateMessageRecipient
    \/ onResetLobbyChatMessageRecipient
    \/ onResetChallengeResponseMessageRecipient

SpecChat == Init /\ [][NextChat]_vars

(***************************************************************************)
(* Properties of the reaction pipeline.                                    *)
(***************************************************************************)
AddKinds == [ i \in 1..Len(addLog) |-> addLog[i].reaction ]

Batches == [ k \in 1..Len(flushLog) |-> flushLog[k].batch ]

\* The flush that carried the i-th added reaction; 0 while it is buffered.
FlushOf(i) ==
    LET carried == { k \in 1..Len(flushLog) : SumLen(SubSeq(Batches, 1, k)) >= i }
    IN  IF carried = {} THEN 0 ELSE CHOOSE k \in carried : \A j \in carried : k <= j

\* Two added reactions less than FlushDelay apart.
InWindow(i, j) ==
    /\ i \in 1..Len(addLog)
    /\ j \in 1..Len(addLog)
    /\ i < j
    /\ addLog[j].t - addLog[i].t < FlushDelay

\* C1: reactions added within a window of 500 units are carried by one and
\* the same flush, which holds them in arrival order: the flushes split the
\* added reactions into consecutive, non-empty batches, no flush falls
\* between two reactions of a window, and while reactions are buffered a
\* flush is still to fire.
C1_OneFlushPerWindow ==
    /\ Flatten(Batches) \o buffer = AddKinds
    /\ \A k \in 1..Len(flushLog) : flushLog[k].batch # << >>
    /\ \A i, j \in 1..Len(addLog) : InWindow(i, j) => FlushOf(i) = FlushOf(j)
    /\ buffer # << >> => timers # {}

\* Two reactions added at different times of one window went out with one
\* flush.
C1_Witness ==
    \E i, j \in 1..Len(addLog) :
        /\ InWindow(i, j)
        /\ addLog[i].t < addLog[j].t
        /\ addLog[i].reaction # addLog[j].reaction
        /\ FlushOf(i) # 0
        /\ FlushOf(i) = FlushOf(j)

\* C2: no reaction is lost or duplicated across a flush boundary: the
\* reactions the flushes pushed to the display queue, followed by the
\* buffered ones, are the added reactions in order; the chat summaries count
\* every added reaction of each kind once; the queue holds what was pushed,
\* each entry under an id of its own.
C2_NoLossNoDuplicate ==
    /\ Queued(flushLog) \o buffer = AddKinds
    /\ \A k \in Kinds :
          ChatCount(flushLog, k) + Count(buffer, k) = Count(AddKinds, k)
    /\ [ i \in 1..Len(queue) |-> queue[i].reaction ] = Queued(flushLog)
    /\ \A i, j \in 1..Len(queue) : queue[i].uid = queue[j].uid => i = j

\* A reaction arrived after a flush and left with the next one.
C2_Witness ==
    /\ Len(flushLog) = 2
    /\ flushLog[1].batch # << >>
    /\ flushLog[2].batch # << >>
    /\ Len(queue) = Len(addLog)

\* C3: a flush dispatches sendReactions only with more than one participant,
\* and dispatches the chat append and the queue push whatever the count is.
C3_SendOnlyWithOthers ==
    \A k \in 1..Len(flushLog) :
        /\ "SEND_REACTIONS" \in Range(flushLog[k].dispatched) => flushLog[k].count > 1
        /\ flushLog[k].net # << >> => flushLog[k].count > 1
        /\ "ADD_REACTION_MESSAGE" \in Range(flushLog[k].dispatched)
        /\ "PUSH_REACTIONS" \in Range(flushLog[k].dispatched)
        /\ Len(flushLog[k].queued) = Len(flushLog[k].batch)

\* A flush of a lone participant: nothing is sent, the chat and the queue
\* get the reactions; and a flush with others present, which is sent.
C3_Witness ==
    \E k, m \in 1..Len(flushLog) :
        /\ flushLog[k].count = 1
        /\ "SEND_REACTIONS" \notin Range(flushLog[k].dispatched)
        /\ "ADD_REACTION_MESSAGE" \in Range(flushLog[k].dispatched)
        /\ flushLog[k].queued # << >>
        /\ flushLog[m].count > 1
        /\ flushLog[m].net # << >>

\* C4: a flush of an empty buffer sends nothing over the network, adds no
\* chat message and no queue entry.
C4_EmptyFlushIsNoOp ==
    \A k \in 1..Len(flushLog) :
        flushLog[k].batch = << >> =>
            /\ flushLog[k].net = << >>
            /\ flushLog[k].chat = << >>
            /\ flushLog[k].queued = << >>

\* C16: in every reachable state at most one flush timer is pending, and it
\* is the timer the state's timeoutID names: ADD_REACTION_BUFFER clears the
\* timer of the state before it sets the next.
C16_OneTimerPending ==
    /\ Cardinality(timers) <= 1
    /\ \A t \in timers : t.id = timeoutID /\ t.due <= now + FlushDelay

\* A second reaction was added while the timer of the first was pending: the
\* only timer left is the second's.
C16_Witness ==
    /\ Len(addLog) >= 2
    /\ flushLog = << >>
    /\ addLog[2].t > addLog[1].t
    /\ now < addLog[1].t + FlushDelay
    /\ timers = { [ id |-> 2, due |-> addLog[2].t + FlushDelay ] }

(***************************************************************************)
(* Properties of the mute-reactions command.                               *)
(***************************************************************************)
MuteCommandStep == last'.op = "MUTE_REACTIONS_COMMAND"

\* C5: a mute-reactions command whose sender is the local participant
\* changes neither startReactionsMuted nor soundsReactions and dispatches
\* nothing, whatever its attribute is.
C5_LocalEchoIgnored ==
    [][ (MuteCommandStep /\ last'.id = LocalId)
            => (UNCHANGED muteVars /\ last'.dispatched = << >>) ]_vars

\* The local participant, a moderator, got its own command to mute, and the
\* reactions are not muted.
C5_Witness ==
    /\ last.op = "MUTE_REACTIONS_COMMAND"
    /\ last.id = LocalId
    /\ last.arg = "true"
    /\ roles[LocalId] = "moderator"
    /\ ~startReactionsMuted
    /\ soundsReactions

\* C6: a mute-reactions command of a sender that is no moderator changes
\* neither startReactionsMuted nor soundsReactions; the two change only in a
\* command of a remote moderator or in a local action.
C6_OnlyModeratorsMute ==
    [][ /\ (MuteCommandStep /\ last'.id \in DOMAIN roles /\ roles[last'.id] # "moderator")
            => UNCHANGED muteVars
        /\ (muteVars' # muteVars)
            => \/ last'.op \in LocalOps
               \/ /\ MuteCommandStep
                  /\ last'.id \in RemoteIds
                  /\ roles[last'.id] = "moderator" ]_vars

\* A remote participant that is no moderator asked to mute, and the
\* reactions are not muted.
C6_Witness ==
    /\ last.op = "MUTE_REACTIONS_COMMAND"
    /\ last.id \in RemoteIds
    /\ last.arg = "true"
    /\ roles[last.id] = "participant"
    /\ ~startReactionsMuted
    /\ soundsReactions

\* C7: a mute-reactions command without a sender id changes nothing,
\* dispatches nothing and raises no error.
C7_NoSenderIgnored ==
    [][ (MuteCommandStep /\ last'.id = Undefined)
            => /\ UNCHANGED muteVars
               /\ last'.dispatched = << >>
               /\ ~last'.threw ]_vars

\* A command to mute came without a sender id, and the reactions are not
\* muted.
C7_Witness ==
    /\ last.op = "MUTE_REACTIONS_COMMAND"
    /\ last.id = Undefined
    /\ last.arg = "true"
    /\ ~last.threw
    /\ ~startReactionsMuted
    /\ soundsReactions

C30_RedeliveryIsNoOp ==
    [][ ( /\ MuteCommandStep
          /\ last'.list = << "redelivery" >>
          /\ last'.id \in RemoteIds
          /\ roles[last'.id] = "moderator" )
          => /\ UNCHANGED muteVars
             /\ last'.dispatched = << >>
             /\ ~last'.threw
             /\ startReactionsMuted = (last'.arg = "true") ]_vars

\* A remote moderator's command to mute was delivered twice in a row: the
\* reactions are muted, and the second delivery dispatched nothing.
C30_Witness ==
    /\ last.op = "MUTE_REACTIONS_COMMAND"
    /\ last.list = << "redelivery" >>
    /\ last.id \in RemoteIds
    /\ roles[last.id] = "moderator"
    /\ last.arg = "true"
    /\ last.dispatched = << >>
    /\ startReactionsMuted
    /\ ~soundsReactions

\* C22: handling a mute-reactions command raises no error, whatever the
\* sender id is; a command of a sender the participants' list does not hold
\* changes nothing and raises no error.
C22_CommandNeverThrows ==
    [][ MuteCommandStep
            => /\ ~last'.threw
               /\ (last'.id \in RemoteIds /\ roles[last'.id] = Absent)
                    => (UNCHANGED muteVars /\ last'.dispatched = << >>) ]_vars

(***************************************************************************)
(* Properties of the lobby.                                                *)
(***************************************************************************)
ApprovalOps ==
    { "setKnockingParticipantApproval", "approveKnockingParticipant",
      "rejectKnockingParticipant" }

\* The command an admission action is to issue.
ExpectedCommand(handled) ==
    IF \/ handled.op = "approveKnockingParticipant"
       \/ (handled.op = "setKnockingParticipantApproval" /\ handled.arg = "approved")
    THEN lobbyApproveAccess(handled.id)
    ELSE lobbyDenyAccess(handled.id)

\* C9: with a current conference, an approval or a rejection issues exactly
\* one lobbyApproveAccess(id) or lobbyDenyAccess(id); it never changes the
\* knocking participants; an id leaves them only in the step of its "left"
\* notification, while time passes or not.
C9_AdmissionLeavesKnockingSet ==
    [][ /\ last'.op \in ApprovalOps
            => /\ knockingParticipants' = knockingParticipants
               /\ conference
                    => lobbyCommands' = Append(lobbyCommands, ExpectedCommand(last'))
        /\ ~(KnockingIds \subseteq KnockingIds')
            => /\ last'.op = "KNOCKING_PARTICIPANT_LEFT"
               /\ KnockingIds \ KnockingIds' = { last'.id } ]_vars

\* A participant was approved and another rejected a while ago, and both are
\* still knocking.
C9_Witness ==
    \E a, b \in KnockingIds :
        /\ a # b
        /\ lobbyCommands = << lobbyApproveAccess(a), lobbyDenyAccess(b) >>
        /\ last.op = "env"
        /\ now > 0

\* C10: the "left" notification of an id removes its entry and no other;
\* approving an id that was approved before issues the command again and
\* leaves the knocking participants as they were, each id in them once.
C10_AdmitTwiceThenLeft ==
    [][ /\ last'.op = "KNOCKING_PARTICIPANT_LEFT"
            => /\ last'.id \notin KnockingIds'
               /\ KnockingIds' = KnockingIds \ { last'.id }
               /\ \A i \in 1..Len(knockingParticipants') :
                     knockingParticipants'[i] \in Range(knockingParticipants)
        /\ ( /\ last'.op = "approveKnockingParticipant"
             /\ conference
             /\ lobbyApproveAccess(last'.id) \in Range(lobbyCommands) )
            => /\ lobbyCommands' = Append(lobbyCommands, lobbyApproveAccess(last'.id))
               /\ Count(lobbyCommands', lobbyApproveAccess(last'.id)) >= 2
               /\ knockingParticipants' = knockingParticipants
        /\ \A i, j \in 1..Len(knockingParticipants') :
              knockingParticipants'[i].id = knockingParticipants'[j].id => i = j ]_vars

\* A was approved twice, then left: A is gone, the other participant is
\* still knocking.
C10_Witness ==
    /\ last.op = "KNOCKING_PARTICIPANT_LEFT"
    /\ last.arg = "knocking"
    /\ Count(lobbyCommands, lobbyApproveAccess(last.id)) = 2
    /\ last.id \notin KnockingIds
    /\ KnockingIds # {}

\* C11: with a current conference, admitMultiple issues one approve command
\* for each id of its list, in the order of the list, whichever id of the
\* list the server refuses: the refusal of one id withholds the command of no
\* other id.
C11_AdmitEachIndependently ==
    [][ (last'.op = "admitMultiple" /\ conference)
          => /\ ~last'.threw
             /\ Len(lobbyCommands') = Len(lobbyCommands) + Len(last'.list)
             /\ \A i \in 1..Len(last'.list) :
                   lobbyCommands'[Len(lobbyCommands) + i]
                     = [ cmd |-> "lobbyApproveAccess", id |-> last'.list[i] ]
             /\ \A i \in 1..Len(lobbyCommands) : lobbyCommands'[i] = lobbyCommands[i]
      ]_vars

\* A list of two ids whose first id the server refuses has been admitted, and
\* the command of the second id has been issued after the command of the
\* first.
C11_Witness ==
    /\ last.op = "admitMultiple"
    /\ ~last.threw
    /\ Len(last.list) = 2
    /\ last.id = last.list[1]
    /\ Len(lobbyCommands) >= 2
    /\ lobbyCommands[Len(lobbyCommands) - 1]
         = [ cmd |-> "lobbyApproveAccess", id |-> last.list[1] ]
    /\ lobbyCommands[Len(lobbyCommands)]
         = [ cmd |-> "lobbyApproveAccess", id |-> last.list[2] ]

\* C23: an admission action issued while there is no current conference
\* issues no command and raises no error: approveKnockingParticipant,
\* rejectKnockingParticipant, setKnockingParticipantApproval and
\* admitMultiple alike.
C23_NoConferenceNoOp ==
    [][ (last'.op \in ApprovalOps \cup { "admitMultiple" } /\ ~getCurrentConference)
          => /\ lobbyCommands' = lobbyCommands
             /\ ~last'.threw ]_vars

(***************************************************************************)
(* Properties of the reaction sounds.                                      *)
(***************************************************************************)
\* The sounds flush f played for kind k.
SoundsFor(f, k) ==
    { i \in 1..Len(flushLog[f].sounds) :
        flushLog[f].sounds[i].soundId = REACTIONS[k].soundId }

\* The tier of a count of one or more, from the thresholds 1, 5, 10 and 20.
TierOf(c) == IF c >= 20 THEN 20 ELSE IF c >= 10 THEN 10 ELSE IF c >= 5 THEN 5 ELSE 1

\* C15: a flush that finds the reaction sounds enabled plays, for every kind
\* its batch holds, exactly one sound, the one of the highest of the tiers 1,
\* 5, 10 and 20 the count of the kind has reached, and no sound for a kind
\* the batch does not hold.
C15_OneSoundPerKindHighestTier ==
    \A f \in 1..Len(flushLog) :
        (flushLog[f].soundsOn /\ ~flushLog[f].threw)
            => \A k \in Kinds :
                 IF Count(flushLog[f].batch, k) = 0
                 THEN SoundsFor(f, k) = {}
                 ELSE /\ Cardinality(SoundsFor(f, k)) = 1
                      /\ \A i \in SoundsFor(f, k) :
                            flushLog[f].sounds[i].threshold
                              = TierOf(Count(flushLog[f].batch, k))

\* A flush of twenty reactions of one kind and four of the other played the
\* sound of tier 20 for the first and the sound of tier 1 for the second.
C15_Witness ==
    \E f \in 1..Len(flushLog) :
        /\ flushLog[f].soundsOn
        /\ Count(flushLog[f].batch, "like") = 20
        /\ Count(flushLog[f].batch, "clap") = 4
        /\ flushLog[f].sounds
             = << [ soundId |-> "REACTION_SOUND_LIKE", threshold |-> 20 ],
                  [ soundId |-> "REACTION_SOUND_CLAP", threshold |-> 1 ] >>

\* The flushes before flush f that dispatched displayReactionSoundsNotification.
NotifiedBefore(f) == { g \in 1..(f - 1) : flushLog[g].notified }

C20_SendFailureDoesNotBlockFlush ==
    [][ ( /\ Len(flushLog') = Len(flushLog) + 1
          /\ flushLog'[Len(flushLog')].threw )
          => /\ flushLog'[Len(flushLog')].chat = << getReactionMessageFromBuffer(buffer) >>
             /\ queue' = queue \o getReactionsWithId(buffer, Len(queue))
             /\ buffer' = << >> ]_vars

\* C21: a flush whose webhook report fails still completes: its dispatches
\* were made, FLUSH_REACTION_BUFFER reaches the reducer and the buffer is
\* cleared, and nothing is thrown.
C21_WebhookFailureDoesNotBlockFlush ==
    [][ ( /\ Len(flushLog') = Len(flushLog) + 1
          /\ flushLog'[Len(flushLog')].webhook # "sent" )
          => /\ flushLog'[Len(flushLog')].webhook = "failed"
             /\ ~flushLog'[Len(flushLog')].threw
             /\ flushLog'[Len(flushLog')].chat = << getReactionMessageFromBuffer(buffer) >>
             /\ queue' = queue \o getReactionsWithId(buffer, Len(queue))
             /\ buffer' = << >> ]_vars

\* A flush of a buffer that held reactions had its report fail, and the
\* buffer is empty.
C21_Witness ==
    /\ flushLog # << >>
    /\ flushLog[Len(flushLog)].webhook = "failed"
    /\ flushLog[Len(flushLog)].batch # << >>
    /\ flushLog[Len(flushLog)].queued # << >>
    /\ buffer = << >>

(***************************************************************************)
(* Properties of the lobby chat.                                           *)
(***************************************************************************)
\* C12: whatever calls of startKnocking, maybeSetLobbyChatMessageListener
\* and setLobbyMessageListener were made, at most one lobby-message listener
\* is registered, and a LOBBY_CHAT_MESSAGE is forwarded to the chat once.
C12_OneLobbyMessageListener ==
    /\ lobbyListeners <= 1
    /\ last.op = LOBBY_CHAT_MESSAGE => Len(last.dispatched) <= 1

\* The notification a LOBBY_CHAT_INITIALIZED of moderator m for attendee a
\* is to produce.
ChatStartedNotification(m, a) ==
    [ titleKey |-> "lobby.lobbyChatStartedNotification",
      moderator |-> DisplayName(m), attendee |-> DisplayName(a) ]

\* C13: a LOBBY_CHAT_INITIALIZED a client with a current conference and a
\* listener receives produces exactly one notification, naming the
\* initiating moderator and the attendee, when the local participant is a
\* moderator, is not the initiating moderator and the attendee is knocking,
\* and no notification otherwise.
C13_OneNotificationForOtherModerators ==
    [][ ( /\ last'.op = LOBBY_CHAT_INITIALIZED
          /\ lobbyListeners >= 1
          /\ getCurrentConference )
          => IF /\ getRole = "moderator"
                /\ last'.id # LocalId
                /\ last'.arg \in KnockingIds
             THEN last'.notified = << ChatStartedNotification(last'.id, last'.arg) >>
             ELSE last'.notified = << >> ]_vars

\* C14: a MODERATOR_IN_CHAT_WITH_LEFT a knocking participant receives ends
\* the lobby chat exactly once when the participant chats with the
\* moderator who left, however many times the message is handled; when the
\* participant chats with nobody or with another moderator, as after a first
\* delivery, it dispatches nothing and changes nothing.
C14_ChatEndedOnce ==
    [][ ( /\ last'.op = MODERATOR_IN_CHAT_WITH_LEFT
          /\ lobbyListeners >= 1
          /\ knocking )
          => IF lobbyMessageRecipient = last'.id
             THEN /\ Count(last'.dispatched, "REMOVE_LOBBY_CHAT_PARTICIPANT") = 1
                  /\ Len(last'.dispatched) = 1
                  /\ lobbyMessageRecipient' = ""
                  /\ ~isLobbyChatActive'
             ELSE /\ last'.dispatched = << >>
                  /\ UNCHANGED << lobbyMessageRecipient, isLobbyChatActive,
                                  knockingParticipants >> ]_vars

\* The message was handled twice, by two listeners, and the chat of the
\* knocking participant was ended once.
C14_Witness ==
    /\ last.op = MODERATOR_IN_CHAT_WITH_LEFT
    /\ knocking
    /\ lobbyListeners = 2
    /\ last.id \in RemoteIds
    /\ last.dispatched = << "REMOVE_LOBBY_CHAT_PARTICIPANT" >>
    /\ lobbyMessageRecipient = ""
    /\ ~isLobbyChatActive

ModeratorLeftStep ==
    /\ last'.op = MODERATOR_IN_CHAT_WITH_LEFT
    /\ lobbyListeners >= 1

\* C26: on a client that is not knocking, handling the departure of
\* moderator M drops every pairing with M: afterwards no knocking
\* participant names M, and the entries that did not name M are as before.
C26_PairingsWithDepartedDropped ==
    [][ (ModeratorLeftStep /\ ~knocking)
          => /\ ~last'.threw
             /\ Len(knockingParticipants') = Len(knockingParticipants)
             /\ \A i \in 1..Len(knockingParticipants) :
                   /\ knockingParticipants'[i].chattingWithModerator # last'.id
                   /\ knockingParticipants'[i].id = knockingParticipants[i].id
                   /\ knockingParticipants[i].chattingWithModerator # last'.id
                        => knockingParticipants'[i] = knockingParticipants[i] ]_vars

\* Two knocking participants were chatting with the moderator who left, and
\* none names the moderator any more.
C26_Witness ==
    /\ last.op = MODERATOR_IN_CHAT_WITH_LEFT
    /\ ~knocking
    /\ lobbyListeners >= 1
    /\ Len(last.list) = 2
    /\ "REMOVE_LOBBY_CHAT_WITH_MODERATOR" \in Range(last.dispatched)
    /\ \A i \in 1..Len(knockingParticipants) :
          knockingParticipants[i].chattingWithModerator # last.id

\* C27: when moderator M leaves, every knocking participant that was
\* chatting with M is sent a MODERATOR_IN_CHAT_WITH_LEFT addressed to it.
C27_EveryChatPartnerNotified ==
    [][ (ModeratorLeftStep /\ ~knocking)
          => \A i \in 1..Len(last'.list) :
                \E k \in 1..Len(last'.sent) :
                   last'.sent[k] = [ type |-> MODERATOR_IN_CHAT_WITH_LEFT,
                                     moderatorId |-> last'.id,
                                     to |-> last'.list[i] ] ]_vars

\* C28: on a knocking client, a MODERATOR_IN_CHAT_WITH_LEFT that names a
\* moderator the local participant is not chatting with, or that arrives
\* when it has no chat, leaves the chat and the lobby state unchanged,
\* dispatches nothing and sends no lobby message.
C28_OtherModeratorLeftIgnored ==
    [][ (ModeratorLeftStep /\ knocking /\ lobbyMessageRecipient # last'.id)
          => /\ last'.dispatched = << >>
             /\ last'.sent = << >>
             /\ last'.notified = << >>
             /\ ~last'.threw
             /\ UNCHANGED << chatVars, knockingParticipants, lobbyChatVars,
                             lobbyCommands >> ]_vars

\* A knocking participant chatting with r1 got the departure of r2, and its
\* chat with r1 is still active.
C28_Witness ==
    /\ last.op = MODERATOR_IN_CHAT_WITH_LEFT
    /\ last.id = "r2"
    /\ knocking
    /\ lobbyListeners >= 1
    /\ isLobbyChatActive
    /\ lobbyMessageRecipient = "r1"
    /\ last.dispatched = << >>
    /\ last.sent = << >>

\* What the handler of each type of message may dispatch.
DispatchesOf(type) ==
    CASE type = LOBBY_CHAT_MESSAGE -> { "ADD_MESSAGE" }
      [] type = LOBBY_CHAT_INITIALIZED ->
            { "SET_LOBBY_PARTICIPANT_CHAT_STATE", "SET_LOBBY_CHAT_RECIPIENT",
              "SHOW_NOTIFICATION" }
      [] type = MODERATOR_IN_CHAT_WITH_LEFT ->
            { "REMOVE_LOBBY_CHAT_PARTICIPANT", "REMOVE_LOBBY_CHAT_WITH_MODERATOR" }
      [] OTHER -> { }

LobbyMessageTypes ==
    { LOBBY_CHAT_MESSAGE, LOBBY_CHAT_INITIALIZED, MODERATOR_IN_CHAT_WITH_LEFT }

\* C25: the listener is a closed three-way switch.  A message of one of the
\* three types runs the handler of its type and no other: a chat message is
\* forwarded to the chat by every listener, a chat initialisation sets the
\* chat state of its attendee, and what is dispatched is what the handler
\* of the type dispatches.  A message of any other type changes no state,
\* dispatches nothing, notifies nobody and sends nothing.
C25_ClosedThreeWaySwitch ==
    [][ /\ (last'.op \in LobbyMessageTypes \cup { OtherMessage })
            => /\ Range(last'.dispatched) \subseteq DispatchesOf(last'.op)
               /\ ~last'.threw
        /\ (last'.op = LOBBY_CHAT_MESSAGE)
            => /\ last'.dispatched = [ i \in 1..lobbyListeners |-> "ADD_MESSAGE" ]
               /\ UNCHANGED << knockingParticipants, chatVars >>
        /\ (last'.op = LOBBY_CHAT_INITIALIZED /\ lobbyListeners >= 1)
            => Count(last'.dispatched, "SET_LOBBY_PARTICIPANT_CHAT_STATE")
                 = lobbyListeners
        /\ (last'.op = OtherMessage)
            => /\ last'.dispatched = << >>
               /\ last'.notified = << >>
               /\ last'.sent = << >>
               /\ UNCHANGED << knockingParticipants, lobbyCommands, lobbyChatVars,
                               chatVars, roles, conference >> ]_vars

\* A client with a listener and an active lobby chat got a message of
\* another type, and the chat is as it was.
C25_Witness ==
    /\ last.op = OtherMessage
    /\ lobbyListeners >= 1
    /\ isLobbyChatActive
    /\ lobbyMessageRecipient # ""
    /\ last.dispatched = << >>

(***************************************************************************)
(* Properties of the chat composer.                                        *)
(***************************************************************************)
\* C17: of the compose targets of the chat composer (private-message
\* recipient, challenge-response recipient, lobby-chat recipient) at most
\* one is active in every reachable state.
C17_OneComposeTarget == Cardinality(ComposeTargets) <= 1

(***************************************************************************)
(* Properties of startKnocking.                                            *)
(***************************************************************************)
\* The position of a call among the calls a handler made, 0 when it was not
\* made.
StepAt(steps, step) ==
    IF \E i \in 1..Len(steps) : steps[i] = step
    THEN CHOOSE i \in 1..Len(steps) : steps[i] = step
    ELSE 0

\* C24: startKnocking issues the join-lobby request first, then registers
\* the lobby-message listener, and only then sets the knocking state: the
\* listener is registered and the knocking state becomes true only in a
\* startKnocking that has issued the request before, so the knocking state
\* is never true before the request was issued.
C24_JoinThenListenThenKnock ==
    [][ /\ last'.op = "startKnocking"
          => LET steps == last'.dispatched
                 join == StepAt(steps, "joinLobby")
                 listen == StepAt(steps, "setLobbyMessageListener")
                 knock == StepAt(steps, "SET_KNOCKING_STATE")
             IN  /\ listen > 0 => (0 < join /\ join < listen)
                 /\ knock > 0 => (0 < listen /\ listen < knock)
                 /\ (knock > 0) = (knocking' /\ ~last'.threw)
                 /\ lobbyListeners' # lobbyListeners => listen > 0
                 /\ knock = 0 => knocking' = knocking
        /\ (knocking' /\ ~knocking)
          => (last'.op = "startKnocking" /\ StepAt(last'.dispatched, "joinLobby") > 0)
      ]_vars

\* The join-lobby request of a startKnocking threw, and the local
\* participant is not knocking and has no listener.
C24_Witness ==
    /\ last.op = "startKnocking"
    /\ last.threw
    /\ "joinLobby" \in Range(last.dispatched)
    /\ ~knocking
    /\ lobbyListeners = 0

(***************************************************************************)
(* Properties of the registration of the command listener.                 *)
(***************************************************************************)
\* C29: whatever CONFERENCE_WILL_JOIN actions were dispatched for the
\* conference, that of startKnocking included, at most one mute-reactions
\* command listener is registered on the conference.
C29_OneCommandListener == commandListeners <= 1

(***************************************************************************)
(* The flush is debounced: it comes once the reactions stop.               *)
(***************************************************************************)
\* The time since the last addReaction call.
LastAddAge == now - addLog[Len(addLog)].t

\* C31: under a fair event loop every buffered reaction is eventually
\* flushed once the addReaction calls stop (the buffer becomes empty again),
\* and a flush fires only when the last addReaction call is at least 500
\* units old: calls that keep arriving less than 500 units apart keep the
\* flush from firing, however long the first of them has waited.
C31_FlushedOnceAddsStop ==
    /\ (buffer # << >>) ~> (buffer = << >>)
    /\ [][flushLog' # flushLog => LastAddAge >= FlushDelay]_vars

\* MaxAdds reactions arrived less than 500 units apart; the first of them has
\* waited longer than 500 units and is still buffered, the timer of the last
\* one not yet being due.
C31_Witness ==
    /\ flushLog = << >>
    /\ Len(addLog) = MaxAdds
    /\ Len(buffer) = MaxAdds
    /\ \A i \in 1..(MaxAdds - 1) : addLog[i + 1].t - addLog[i].t < FlushDelay
    /\ now - addLog[1].t > FlushDelay
    /\ \A t \in timers : t.due > now
    /\ timers # {}

(***************************************************************************)
(* The actions of the reaction-sounds notification.                        *)
(***************************************************************************)
\* The step shows the sounds notification: the SHOW_SOUNDS_NOTIFICATION case
\* ran, dispatched on its own or by the PUSH_REACTIONS of a flush.
SoundsNotificationShown ==
    \/ last'.op = "SHOW_SOUNDS_NOTIFICATION"
    \/ /\ Len(flushLog') = Len(flushLog) + 1
       /\ flushLog'[Len(flushLog')].notified

\* C32: the notification that is shown offers the action of every user, and
\* the action that mutes the reaction sounds for everyone if and only if the
\* local participant is a moderator when it is shown; the moderator's action
\* sets startReactionsMuted to true and soundsReactions to false in one
\* step, and the action of every user sets soundsReactions to false and
\* changes nothing else of the state.
C32_ModeratorOnlyMuteForAll ==
    [][ /\ SoundsNotificationShown =>
              /\ "notify.reactionSounds" \in Range(customActions')
              /\ "notify.reactionSoundsForAll" \in Range(customActions')
                    <=> isLocalParticipantModerator
        /\ last'.op = "notify.reactionSoundsForAll" =>
              /\ "notify.reactionSoundsForAll" \in Range(customActions)
              /\ startReactionsMuted' = TRUE
              /\ soundsReactions' = FALSE
              /\ last'.dispatched[1] = "SET_START_REACTIONS_MUTED"
        /\ last'.op = "notify.reactionSounds" =>
              /\ soundsReactions' = FALSE
              /\ UNCHANGED << now, reactionVars, roles, conference, startReactionsMuted,
                              commandListeners, lobbyVars >>
      ]_vars

\* A moderator was shown the notification with both actions and triggered
\* the one that mutes the reaction sounds for everyone, the sounds being on
\* and the start-muted flag off until then.
C32_Witness ==
    /\ last.op = "notify.reactionSoundsForAll"
    /\ "reaction.sounds.disabled" \in Range(last.dispatched)
    /\ customActions = << "notify.reactionSounds", "notify.reactionSoundsForAll" >>
    /\ isLocalParticipantModerator
    /\ startReactionsMuted
    /\ ~soundsReactions

(***************************************************************************)
(* The sounds of the reactions are registered for the life of the          *)
(* application.                                                            *)
(***************************************************************************)
\* The ids of the sounds of the reactions: one for each kind and tier, and
\* the raise-hand sound.
ReactionSoundIds ==
    { SoundId(REACTIONS[k].soundId, t) : k \in Kinds, t \in SoundsThresholds }
    \cup { RAISE_HAND_SOUND_ID }

\* What a step that mounts, unmounts or flushes does to the registered sounds.
MountAndUnmountAreInverse ==
    /\ last'.op = "APP_WILL_MOUNT" =>
          /\ registeredSounds' = registeredSounds \cup ReactionSoundIds
          /\ Len(last'.dispatched)
                = Cardinality(Kinds) * Cardinality(SoundsThresholds) + 1
          /\ Cardinality(ReactionSoundIds) = Len(last'.dispatched)
    /\ last'.op = "APP_WILL_UNMOUNT" =>
          /\ registeredSounds' = registeredSounds \ ReactionSoundIds
          /\ registeredSounds' \cap ReactionSoundIds = {}
          /\ Len(last'.dispatched) = Cardinality(ReactionSoundIds)
    /\ flushLog' # flushLog =>
          /\ registeredSounds' = registeredSounds
          /\ \A type \in Range(flushLog'[Len(flushLog')].dispatched) :
                type \notin { "REGISTER_SOUND", "UNREGISTER_SOUND" }

\* C33: APP_WILL_MOUNT registers one sound for each reaction kind and tier
\* and the raise-hand sound, APP_WILL_UNMOUNT unregisters exactly these ids
\* and no sound of another feature, so that no sound of the reactions is
\* registered before the mount or after the unmount, and a flush registers
\* and unregisters nothing.
C33_UnmountUndoesMount ==
    /\ [][MountAndUnmountAreInverse]_vars
    /\ [](ReactionSoundIds \subseteq registeredSounds <=> app = "mounted")
    /\ [](app # "mounted" => registeredSounds \cap ReactionSoundIds = {})

\* The application was mounted and unmounted with a flush between the two
\* and a sound of another feature registered: that sound alone is left.
C33_Witness ==
    /\ app = "unmounted"
    /\ last.op = "APP_WILL_UNMOUNT"
    /\ flushLog # << >>
    /\ registeredSounds = OtherSoundIds
====
